---- MODULE Spec2Model ----
(***************************************************************************)
(* Governance proxy for tool-invocation services: the interceptor          *)
(* (GovernanceLoggingMiddleware.on_call_tool), the policy engine           *)
(* (GovernanceEngine) and the audit store gateway (MongoDBAtlasClient).    *)
(***************************************************************************)
EXTENDS Integers, Sequences, FiniteSets, TLC

\* ------------------------------------------------------------------ bounds
\* Number of tool calls (one fresh session_id each) in a behaviour.
MaxCalls == 2
\* Concurrent calls followed through _check_rate_limit.
MaxRateTasks == 3
\* Concurrent calls followed through their audit writes.
MaxAuditCalls == 2
\* Concurrent calls of the tracker's methods.
MaxTrackerTasks == 3
\* Calls made to one GovernanceEngine in a row.
MaxEngineCalls == 3
\* Calls of get_metrics_summary in a row.
MaxMetricsCalls == 3
\* Times the clock of the metrics cache advances.
MaxMetricsTicks == 3
\* Deepest nesting of the sample values handed to the serializer.
MaxNesting == 6
\* Last instant of the UTC clock, in seconds.
MaxTime == 60

\* The clock advances in steps of these many seconds.
TickSteps == {60}

\* ------------------------------------------------------- program constants
\* timedelta(minutes=1), in seconds.
Window == 60
\* max_content_size of store_tool_log.
max_content_size == 10000
\* the parameter size limit of high security mode.
HighSecurityParamLimit == 10000
\* len(json.dumps(...)) of a serialized CallToolResult holding one empty
\* text block, isError false; one character less when isError is true.
SerializedResultOverhead == 150

Calls == 1..MaxCalls

\* ------------------------------------------------------------------ inputs
Servers == {"echo-srv", "db-srv"}
Tools == {"echo", "Delete_User"}

\* Sample arguments: text is str(arguments).lower(), size is len(str(arguments)),
\* json_size is len(json.dumps(arguments, default=str)).
ArgHi == [text |-> "{'msg': 'hi'}", size |-> 13, json_size |-> 13]
ArgDrop == [text |-> "{'sql': 'drop table users'}", size |-> 27, json_size |-> 27]
Arguments == {ArgHi, ArgDrop}

\* The sample requests: server, tool name, arguments.
Requests ==
    {[server_name |-> "echo-srv", tool_name |-> "echo", arguments |-> ArgHi],
     [server_name |-> "echo-srv", tool_name |-> "echo", arguments |-> ArgDrop],
     [server_name |-> "db-srv", tool_name |-> "Delete_User", arguments |-> ArgHi]}

\* Local wall-clock hours sampled by datetime.now().hour.
HourSamples == {2, 10}

\* Upstream results: a CallToolResult with one text block of text_len characters.
ResultHi == [isError |-> FALSE, text_len |-> 2]
ResultBig == [isError |-> FALSE, text_len |-> 51200]
\* An upstream io fault surfaced as a result with isError true.
ResultFault == [isError |-> TRUE, text_len |-> 17]
Results == {ResultHi, ResultBig, ResultFault}
NoResult == [isError |-> FALSE, text_len |-> -1]

\* Messages of the exceptions the upstream call raises.
UpstreamErrors == {"upstream_closed"}

\* The governance section of each server in the configuration file.
server_governance ==
    [s \in Servers |->
        IF s = "echo-srv"
        THEN [rate_limit |-> 1, high_security |-> FALSE, allowed_hours |-> 9..17,
              blocked_patterns |-> <<"hi">>]
        ELSE [rate_limit |-> 2, high_security |-> TRUE, allowed_hours |-> 0..23,
              blocked_patterns |-> <<>>]]

\* _store_governance_config: the keys of the governance section that are
\* stored (and that _get_governance_config hands back) and the engine reads.
_store_governance_config(governance_config) ==
    [rate_limit |-> governance_config.rate_limit,
     high_security |-> governance_config.high_security,
     allowed_hours |-> governance_config.allowed_hours]

\* The governance_configs collection, as _store_governance_config wrote it at mount.
governance_configs ==
    [s \in Servers |-> _store_governance_config(server_governance[s])]

\* ------------------------------------------------ GovernanceEngine (policy)
\* str.lower() on the sample tool names.
lower(name) == IF name = "Delete_User" THEN "delete_user" ELSE name

\* op in name: substring test on strings.
Contains(op, name) ==
    \E i \in 1..(Len(name) - Len(op) + 1) : SubSeq(name, i, i + Len(op) - 1) = op

\* re.search(pattern, text, re.IGNORECASE) on the sample argument texts.
re_search(pattern, text) ==
    <<pattern, text>> \in {<<"drop\\s+table", "{'sql': 'drop table users'}">>,
                          <<"hi", "{'msg': 'hi'}">>}

\* load_default_policies: security_policies["default"].
DefaultPolicy ==
    [max_requests_per_minute |-> 100,
     max_concurrent_sessions |-> 10,
     allowed_hours |-> 0..23,
     blocked_patterns |->
        <<"(password|secret|token|key)\\s*[:=]\\s*\\w+",
          "(rm|del|delete)\\s+-rf",
          "drop\\s+table",
          "eval\\s*\\(",
          "exec\\s*\\(">>,
     high_security_mode |-> FALSE]

\* The value of a result's "policy_applied" when the result has no such key.
NoPolicy == [DefaultPolicy EXCEPT !.max_requests_per_minute = -1]

\* A check that passed: {"allowed": True}.
CheckPassed ==
    [allowed |-> TRUE, reason |-> "", policy_violation |-> "", error |-> FALSE,
     policy_applied |-> NoPolicy]

\* A check that denied: {"allowed": False, "reason": ..., "policy_violation": ...}.
Denied(reason, violation) ==
    [allowed |-> FALSE, reason |-> reason, policy_violation |-> violation,
     error |-> FALSE, policy_applied |-> NoPolicy]

\* A variant of _get_server_policy that admits nothing for a server whose
\* config is missing.
_get_server_policy_Strict(server_name, governance_config) ==
    IF DOMAIN governance_config = {}
    THEN [DefaultPolicy EXCEPT !.max_requests_per_minute = 0]
    ELSE [DefaultPolicy EXCEPT
            !.max_requests_per_minute = governance_config.rate_limit]

\* _get_server_policy: the default policy overridden by the server's config.
_get_server_policy(server_name, governance_config) ==
    [DefaultPolicy EXCEPT
        !.max_requests_per_minute =
            IF "rate_limit" \in DOMAIN governance_config
            THEN governance_config.rate_limit ELSE @,
        !.allowed_hours =
            IF "allowed_hours" \in DOMAIN governance_config
            THEN governance_config.allowed_hours ELSE @,
        !.high_security_mode =
            IF "high_security" \in DOMAIN governance_config
            THEN governance_config.high_security ELSE @]

\* A variant of _check_time_restrictions that lets every hour pass.
_check_time_restrictions_Off(policy, current_hour) == CheckPassed

\* _check_time_restrictions: the current local hour must be an allowed hour.
_check_time_restrictions(policy, current_hour) ==
    IF current_hour \notin policy.allowed_hours
    THEN Denied("Access not allowed at hour " \o ToString(current_hour)
                    \o ". Allowed hours: " \o ToString(policy.allowed_hours),
                "time_restriction")
    ELSE CheckPassed

\* The requests of a server's rate limiter, created empty when missing.
RequestsOf(limiters, server_name) ==
    IF server_name \in DOMAIN limiters THEN limiters[server_name] ELSE <<>>

\* rate_limiters with the requests of server_name replaced.
WithRequests(limiters, server_name, requests) ==
    [s \in DOMAIN limiters \cup {server_name} |->
        IF s = server_name THEN requests ELSE limiters[s]]

\* A variant of CleanOldRequests that never drops a request.
CleanOldRequests_KeepAll(requests, current_time) == requests

\* The requests newer than one minute before current_time.
CleanOldRequests(requests, current_time) ==
    LET cutoff_time == current_time - Window
    IN SelectSeq(requests, LAMBDA req_time : req_time > cutoff_time)

\* The limit test of _check_rate_limit.
LimitExceeded(requests, max_requests) == Len(requests) >= max_requests

\* A variant of _check_rate_limit that records a request only once the whole
\* check has passed, that is never inside the rate check.
_check_rate_limit_NoRecord(server_name, policy, limiters, current_time) ==
    LET requests == CleanOldRequests(RequestsOf(limiters, server_name), current_time)
    IN [result |-> IF LimitExceeded(requests, policy.max_requests_per_minute)
                   THEN Denied("Rate limit exceeded", "rate_limit") ELSE CheckPassed,
        rate_limiters |-> WithRequests(limiters, server_name, requests)]

\* _check_rate_limit: prune the window, deny when full, else record the request.
_check_rate_limit(server_name, policy, limiters, current_time) ==
    LET max_requests == policy.max_requests_per_minute
        requests == CleanOldRequests(RequestsOf(limiters, server_name), current_time)
    IN IF LimitExceeded(requests, max_requests)
       THEN [result |-> Denied("Rate limit exceeded: " \o ToString(Len(requests)) \o "/"
                                   \o ToString(max_requests) \o " requests per minute",
                               "rate_limit"),
             rate_limiters |-> WithRequests(limiters, server_name, requests)]
       ELSE [result |-> CheckPassed,
             rate_limiters |->
                WithRequests(limiters, server_name, Append(requests, current_time))]

\* _check_security_patterns: the first blocked pattern found in the parameters.
_check_security_patterns(parameters, policy) ==
    LET blocked_patterns == policy.blocked_patterns
        hits == {i \in 1..Len(blocked_patterns) :
                    re_search(blocked_patterns[i], parameters.text)}
    IN IF hits = {}
       THEN CheckPassed
       ELSE LET first == CHOOSE i \in hits : \A j \in hits : i <= j
            IN Denied("Security pattern detected: " \o blocked_patterns[first],
                      "security_pattern")

\* The operations high security mode treats as sensitive.
sensitive_operations == {"delete", "remove", "drop", "truncate", "exec", "eval"}

\* A variant of _check_high_security_restrictions that lets every call pass.
_check_high_security_restrictions_Off(server_name, tool_name, parameters) == CheckPassed

\* _check_high_security_restrictions: sensitive tool names, oversized parameters.
_check_high_security_restrictions(server_name, tool_name, parameters) ==
    IF \E op \in sensitive_operations : Contains(op, lower(tool_name))
    THEN Denied("High security mode: " \o tool_name \o " contains sensitive operation",
                "high_security_sensitive_operation")
    ELSE IF parameters.size > HighSecurityParamLimit
    THEN Denied("High security mode: Parameter size too large ("
                    \o ToString(parameters.size) \o " chars)",
                "high_security_parameter_size")
    ELSE CheckPassed

\* A variant of GovernanceFault that fails open.
GovernanceFault_Open(e) ==
    [allowed |-> TRUE, reason |-> "Governance error: " \o e,
     policy_violation |-> "", error |-> TRUE, policy_applied |-> NoPolicy]

\* The except branch of check_governance: an engine fault is a denial.
GovernanceFault(e) ==
    [allowed |-> FALSE, reason |-> "Governance error: " \o e,
     policy_violation |-> "", error |-> TRUE, policy_applied |-> NoPolicy]

\* A variant of store_governance_log that lets the exception of a failed
\* insert escape.
store_governance_log_Raising(log_entry, ok) ==
    [raised |-> ~ok, acknowledged |-> ok, document |-> log_entry]

\* store_governance_log: insert the decision; every exception is caught.
store_governance_log(log_entry, ok) ==
    [raised |-> FALSE, acknowledged |-> ok, document |-> log_entry]

\* _log_governance_decision: build the governance_log entry and store it.
_log_governance_decision(server_name, tool_name, decision, policy, current_time, ok) ==
    LET log_entry ==
            [server_name |-> server_name, tool_name |-> tool_name,
             decision |-> decision, policy_applied |-> policy,
             timestamp |-> current_time]
        w == store_governance_log(log_entry, ok)
    IN [raised |-> w.raised, writes |-> <<w.document>>, failed |-> ~w.acknowledged]

\* The steps of check_governance at which an exception can be raised.
FaultPoints == {"none", "policy", "time", "rate", "patterns", "high_security"}

\* str(e) of an exception raised by a step of check_governance, and of one
\* raised by a store operation.
EngineError == "boom"
StoreError == "store down"

\* check_governance: time window, rate limit, content patterns, high security,
\* then the decision log; the first denial returns, any exception denies.
\* fault names the step that raises, ok whether the store acknowledges the log.
check_governance(server_name, tool_name, parameters, governance_config, limiters, current_hour, current_time, fault, ok) ==
    LET policy == _get_server_policy(server_name, governance_config)
        time_check == _check_time_restrictions(policy, current_hour)
        rate_check == _check_rate_limit(server_name, policy, limiters, current_time)
        pruned == WithRequests(limiters, server_name,
                    CleanOldRequests(RequestsOf(limiters, server_name), current_time))
        security_check == _check_security_patterns(parameters, policy)
        security_mode_check ==
            _check_high_security_restrictions(server_name, tool_name, parameters)
        log == _log_governance_decision(server_name, tool_name, "allowed", policy,
                                        current_time, ok)
        Before(result, e) ==
            [result |-> result, exception |-> e, rate_limiters |-> limiters,
             writes |-> <<>>, failed |-> FALSE]
        After(result, e) ==
            [result |-> result, exception |-> e,
             rate_limiters |-> rate_check.rate_limiters,
             writes |-> <<>>, failed |-> FALSE]
        Logged(result, e) ==
            [result |-> result, exception |-> e,
             rate_limiters |-> rate_check.rate_limiters,
             writes |-> log.writes, failed |-> log.failed]
    IN  IF fault = "policy" THEN Before(GovernanceFault(EngineError), EngineError)
        ELSE IF fault = "time" THEN Before(GovernanceFault(EngineError), EngineError)
        ELSE IF ~time_check.allowed THEN Before(time_check, "")
        ELSE IF fault = "rate"
            THEN [result |-> GovernanceFault(EngineError), exception |-> EngineError,
                  rate_limiters |-> pruned, writes |-> <<>>, failed |-> FALSE]
        ELSE IF ~rate_check.result.allowed THEN After(rate_check.result, "")
        ELSE IF fault = "patterns" THEN After(GovernanceFault(EngineError), EngineError)
        ELSE IF ~security_check.allowed THEN After(security_check, "")
        ELSE IF policy.high_security_mode /\ fault = "high_security"
            THEN After(GovernanceFault(EngineError), EngineError)
        ELSE IF policy.high_security_mode /\ ~security_mode_check.allowed
            THEN After(security_mode_check, "")
        ELSE IF log.raised THEN Logged(GovernanceFault(StoreError), StoreError)
        ELSE Logged([allowed |-> TRUE, reason |-> "Governance checks passed",
                     policy_violation |-> "", error |-> FALSE,
                     policy_applied |-> policy], "")

VARIABLES
    now,                    \* datetime.now(timezone.utc), seconds
    pc,                     \* session -> position of the call in on_call_tool
    call,                   \* session -> server_name, tool_name, arguments, governance_config
    decision,               \* session -> governance_result of check_governance
    engine_exception,       \* session -> str(e) of the exception caught in check_governance
    rate_limiters,          \* GovernanceEngine.rate_limiters: server -> requests
    tool_log_writes,        \* session -> documents store_tool_log handed to tool_logs, in order
    governance_log_writes,  \* session -> documents store_governance_log handed to governance_logs
    write_failed,           \* whether the store has failed one of these writes
    upstream_calls,         \* session -> number of call_next(context) invocations
    upstream_event,         \* session -> what the upstream call did
    outcome,                \* session -> what the caller of on_call_tool got
    if_stored,              \* session -> decision and outcome had every write succeeded
    probe,                  \* a function applied on its own: its input and its result
    config_file,            \* the file at ConfigLoader.config_path
    default_governance,     \* the dict default_config['governance'], shared by every plan
    config_cache,           \* ConfigLoader.config_cache
    config_hash,            \* ConfigLoader.config_hash
    file_touched,           \* whether the file was changed since the last load_config
    loads,                  \* what each load_config call found and returned, in order
    front_end,              \* front-end -> its server task, its calls in flight
    shutdown_event,         \* MCPGovernanceManager.shutdown_event is set
    is_running,             \* MCPGovernanceManager.is_running
    shutdown_requested,     \* MCPGovernanceApp.shutdown_requested
    app_pc,                 \* position of MCPGovernanceApp.run
    signal_task,            \* position of the shutdown() task a signal handler created
    stop_servers_invoked,   \* whether run's finally has called stop_servers
    rate_task,              \* task -> position of a call inside _check_rate_limit
    audit_task,             \* call -> position of on_call_tool around its audit writes
    usage_tracker,          \* UsageTracker.active_sessions and the usage documents the store took
    tracker_task            \* task -> position of a start_tracking or complete_tracking call

\* The state of the interceptor, the engine and the audit store.
interceptor == <<now, pc, call, decision, engine_exception, rate_limiters, tool_log_writes, governance_log_writes, write_failed, upstream_calls, upstream_event, outcome, if_stored>>

\* The state outside the interceptor.
\* The state of the ConfigLoader and its file.
loader == <<config_file, default_governance, config_cache, config_hash, file_touched, loads>>

\* The state of the supervisor: MCPGovernanceApp, run_servers, the front-ends.
supervisor == <<front_end, shutdown_event, is_running, shutdown_requested, app_pc, signal_task, stop_servers_invoked>>

\* The coroutines followed between their suspension points.
coroutines == <<rate_task, audit_task, usage_tracker, tracker_task>>

others == <<probe, loader, supervisor, coroutines>>

vars == <<interceptor, others>>

NoCall == [server_name |-> "", tool_name |-> "", arguments |-> ArgHi, governance_config |-> <<>>]
NoDecision == Denied("", "")
Pending == [kind |-> "pending", result |-> NoResult, message |-> ""]
NoEvent == [kind |-> "none", result |-> NoResult, message |-> ""]
NoOutputs == [kind |-> "absent", size |-> 0]
NoInputs == [kind |-> "absent", size |-> 0]

\* No function has been applied on its own.
DefaultBasePort == 8173

\* _get_default_config()["governance"].
DefaultGovernance ==
    [deployment_mode |-> "unified",
     base_port |-> DefaultBasePort,
     enable_tracking |-> TRUE,
     enable_dashboard |-> TRUE,
     mongodb_uri |-> "mongodb://localhost:27017",
     auth_disabled |-> TRUE,
     transformation_strategy |-> "fastmcp_native"]

\* No file at config_path.
FileAbsent == [exists |-> FALSE, readable |-> FALSE, content |-> ""]

\* ConfigLoader.__init__, with no file written yet.
LoaderInit ==
    /\ config_file = FileAbsent
    /\ default_governance = DefaultGovernance
    /\ config_cache = <<>>
    /\ config_hash = "None"
    /\ file_touched = FALSE
    /\ loads = <<>>

\* The front-ends setup_all_servers registered in self.servers.
FrontEnds == {"unified", "a"}

\* After setup_all_servers, before run_servers: no task created yet.
SupervisorInit ==
    /\ front_end = [f \in FrontEnds |->
            [state |-> "init", in_flight |-> 0, failed |-> FALSE, accepted_after_shutdown |-> FALSE]]
    /\ shutdown_event = FALSE
    /\ is_running = FALSE
    /\ shutdown_requested = FALSE
    /\ app_pc = "setup_done"
    /\ signal_task = "none"
    /\ stop_servers_invoked = FALSE

\* The calls whose tasks the event loop holds.
RateTasks == 1..MaxRateTasks
AuditCalls == 1..MaxAuditCalls

NoRateTask ==
    [pc |-> "idle", server_name |-> "", max_requests |-> 0, current_time |-> 0,
     result |-> NoDecision]
NoAuditTask == [pc |-> "idle", awaiting |-> "", allowed |-> FALSE, stored |-> 0]
TrackerTasks == 1..MaxTrackerTasks
NoTrackerTask == [pc |-> "idle", op |-> "", session_id |-> "", status |-> "", result |-> ""]

\* No call has arrived.
CoroutinesInit ==
    /\ rate_task = [t \in RateTasks |-> NoRateTask]
    /\ audit_task = [c \in AuditCalls |-> NoAuditTask]
    /\ usage_tracker = [active_sessions |-> <<>>, usage_sessions |-> <<>>]
    /\ tracker_task = [t \in TrackerTasks |-> NoTrackerTask]

NoProbe == [input |-> <<>>, done |-> FALSE, output |-> <<>>]

\* The interceptor before any call: empty rate limiters, empty collections.
InterceptorInit ==
    /\ now = 0
    /\ pc = [c \in Calls |-> "idle"]
    /\ call = [c \in Calls |-> NoCall]
    /\ decision = [c \in Calls |-> NoDecision]
    /\ engine_exception = [c \in Calls |-> ""]
    /\ rate_limiters = <<>>
    /\ tool_log_writes = [c \in Calls |-> <<>>]
    /\ governance_log_writes = [c \in Calls |-> <<>>]
    /\ write_failed = FALSE
    /\ upstream_calls = [c \in Calls |-> 0]
    /\ upstream_event = [c \in Calls |-> NoEvent]
    /\ outcome = [c \in Calls |-> Pending]
    /\ if_stored = [c \in Calls |-> [decision |-> NoDecision, outcome |-> Pending]]

Init ==
    /\ probe = NoProbe
    /\ InterceptorInit
    /\ LoaderInit
    /\ SupervisorInit
    /\ CoroutinesInit

\* ------------------------------------------------- MongoDBAtlasClient (audit)
\* A variant of store_tool_log that inserts the entry as it is.
store_tool_log_Unbounded(log_entry, ok) ==
    [raised |-> FALSE, acknowledged |-> ok, document |-> log_entry]

\* store_tool_log: replace inputs or outputs over max_content_size by a stub,
\* insert the document; every exception is caught and False returned.
store_tool_log(log_entry, ok) ==
    LET in_big == log_entry.inputs.kind = "value" /\ log_entry.inputs.size > max_content_size
        out_big == log_entry.outputs.kind = "value" /\ log_entry.outputs.size > max_content_size
        document ==
            [log_entry EXCEPT
                !.inputs = IF in_big THEN [kind |-> "_truncated", size |-> @.size] ELSE @,
                !.outputs = IF out_big THEN [kind |-> "_truncated", size |-> @.size] ELSE @]
    IN [raised |-> FALSE, acknowledged |-> ok, document |-> document]

\* get_governance_config / _get_governance_config: the stored config of the
\* server, or None (here the empty dict the caller turns it into) when the
\* lookup fails or finds nothing.
_get_governance_config(server_name, found) ==
    IF found /\ server_name \in DOMAIN governance_configs
    THEN governance_configs[server_name]
    ELSE <<>>

\* ------------------------------------------------------ MCPGovernanceManager
\* A variant of _log_tool_invocation that submits nothing.
_log_tool_invocation_Silent(session_id, server_name, tool_name, inputs, ok) ==
    [raised |-> FALSE, writes |-> <<>>, failed |-> FALSE]

\* _log_tool_invocation: build the invocation entry and store it; exceptions are logged.
\* The entry's start_time, timestamp, input_size and environment are left
\* out: no step of the program reads them back.
_log_tool_invocation(session_id, server_name, tool_name, inputs, ok) ==
    LET log_entry ==
            [session_id |-> session_id, server_name |-> server_name,
             tool_name |-> tool_name, event_type |-> "tool_invocation",
             status |-> "invocation request received", error_message |-> "None",
             inputs |-> [kind |-> "value", size |-> inputs.json_size],
             outputs |-> NoOutputs]
        w == store_tool_log(log_entry, ok)
    IN [raised |-> FALSE, writes |-> <<w.document>>, failed |-> ~w.acknowledged]

\* _serialize_tool_outputs on a CallToolResult with one text block: the text
\* is copied whole; size is the length of the JSON text of the serialization.
_serialize_tool_outputs(outputs) ==
    [kind |-> "value",
     size |-> SerializedResultOverhead - (IF outputs.isError THEN 1 ELSE 0)
                + outputs.text_len]

\* _log_tool_completion: build the completion entry (outputs only on success)
\* and store it; exceptions are logged. The entry's end_time, timestamp,
\* duration_ms and output_size are left out.
_log_tool_completion(session_id, server_name, tool_name, inputs, outputs, status, error_message, ok) ==
    LET log_entry ==
            [session_id |-> session_id, server_name |-> server_name,
             tool_name |-> tool_name, event_type |-> "tool_completion",
             status |-> status, error_message |-> error_message,
             inputs |-> NoInputs,
             outputs |-> IF status = "success" /\ outputs # NoResult
                         THEN _serialize_tool_outputs(outputs) ELSE NoOutputs]
        w == store_tool_log(log_entry, ok)
    IN [raised |-> FALSE, writes |-> <<w.document>>, failed |-> ~w.acknowledged]

\* ----------------------------------------------- GovernanceLoggingMiddleware
\* A variant of ExceptBranch that swallows the exception and returns nothing.
ExceptBranch_Swallows(session_id, cl, e, ok) ==
    LET w == _log_tool_completion(session_id, cl.server_name, cl.tool_name, cl.arguments,
                                  NoResult, "error", e, ok)
    IN [writes |-> w.writes, failed |-> w.failed,
        outcome |-> [kind |-> "returned", result |-> NoResult, message |-> ""]]

\* The except Exception block of on_call_tool: log an error completion, re-raise.
ExceptBranch(session_id, cl, e, ok) ==
    LET w == _log_tool_completion(session_id, cl.server_name, cl.tool_name, cl.arguments,
                                  NoResult, "error", e, ok)
    IN [writes |-> w.writes, failed |-> w.failed,
        outcome |-> [kind |-> "raised", result |-> NoResult, message |-> e]]

\* The denied branch of on_call_tool: log a denied completion, raise the
\* governance exception inside the try block, whose except block handles it.
DeniedBranch(session_id, cl, governance_result, ok1, ok2) ==
    LET w == _log_tool_completion(session_id, cl.server_name, cl.tool_name, cl.arguments,
                                  NoResult, "denied", governance_result.reason, ok1)
        x == ExceptBranch(session_id, cl, "Governance denied: " \o governance_result.reason,
                          ok2)
    IN [writes |-> w.writes \o x.writes, failed |-> w.failed \/ x.failed,
        outcome |-> x.outcome]

\* A variant of SuccessBranch that returns the result bounded like the audit copy.
SuccessBranch_ReturnsAudited(session_id, cl, result, ok) ==
    LET w == _log_tool_completion(session_id, cl.server_name, cl.tool_name, cl.arguments,
                                  result, "success", "None", ok)
        bounded == IF result.text_len > max_content_size
                   THEN [result EXCEPT !.text_len = max_content_size] ELSE result
    IN [writes |-> w.writes, failed |-> w.failed,
        outcome |-> [kind |-> "returned", result |-> bounded, message |-> ""]]

\* The success branch of on_call_tool: log a success completion, return the result.
SuccessBranch(session_id, cl, result, ok) ==
    LET w == _log_tool_completion(session_id, cl.server_name, cl.tool_name, cl.arguments,
                                  result, "success", "None", ok)
    IN [writes |-> w.writes, failed |-> w.failed,
        outcome |-> [kind |-> "returned", result |-> result, message |-> ""]]

\* A variant of Admitted that lets every decision through to the upstream.
Admitted_Always(governance_result) == TRUE

\* The test of on_call_tool on governance_result["allowed"].
Admitted(governance_result) == governance_result.allowed

\* on_call_tool, lines 28-44: fresh session, start time, invocation record,
\* governance config, governance check.
Begin(session_id, rq, t, limiters, hour, fault, found, ok0, ok) ==
    LET w == _log_tool_invocation(session_id, rq.server_name, rq.tool_name,
                                  rq.arguments, ok0)
        governance_config == _get_governance_config(rq.server_name, found)
        g == check_governance(rq.server_name, rq.tool_name, rq.arguments,
                governance_config, limiters, hour, t, fault, ok)
    IN [call |-> [server_name |-> rq.server_name, tool_name |-> rq.tool_name,
                  arguments |-> rq.arguments, governance_config |-> governance_config],
        invocation |-> w,
        governance |-> g]

\* on_call_tool, lines 28-56, allowed: the governance check passes and
\* call_next begins.
CallAllowed(c) ==
    /\ pc[c] = "idle"
    /\ IF c = 1 THEN TRUE ELSE pc[c - 1] # "idle"
    /\ \E rq \in Requests, hour \in HourSamples, fault \in FaultPoints,
          found \in BOOLEAN, ok \in BOOLEAN :
        LET b == Begin(c, rq, now, rate_limiters, hour, fault, found, ok, ok)
            h == IF ok THEN b
                 ELSE Begin(c, rq, now, rate_limiters, hour, fault, found, TRUE, TRUE)
            g == b.governance
        IN
        /\ Admitted(g.result)
        /\ call' = [call EXCEPT ![c] = b.call]
        /\ tool_log_writes' = [tool_log_writes EXCEPT ![c] = @ \o b.invocation.writes]
        /\ decision' = [decision EXCEPT ![c] = g.result]
        /\ engine_exception' = [engine_exception EXCEPT ![c] = g.exception]
        /\ rate_limiters' = g.rate_limiters
        /\ governance_log_writes' = [governance_log_writes EXCEPT ![c] = @ \o g.writes]
        /\ write_failed' = (write_failed \/ b.invocation.failed \/ g.failed)
        /\ if_stored' = [if_stored EXCEPT ![c].decision = h.governance.result]
    /\ upstream_calls' = [upstream_calls EXCEPT ![c] = @ + 1]
    /\ pc' = [pc EXCEPT ![c] = "upstream"]
    /\ UNCHANGED <<now, upstream_event, outcome, others>>

\* on_call_tool, lines 28-52 and 68-76, denied: the governance check denies.
CallDenied(c) ==
    /\ pc[c] = "idle"
    /\ IF c = 1 THEN TRUE ELSE pc[c - 1] # "idle"
    /\ \E rq \in Requests, hour \in HourSamples, fault \in FaultPoints,
          found \in BOOLEAN, ok \in BOOLEAN :
        LET b == Begin(c, rq, now, rate_limiters, hour, fault, found, ok, ok)
            h == IF ok THEN b
                 ELSE Begin(c, rq, now, rate_limiters, hour, fault, found, TRUE, TRUE)
            g == b.governance
            d == DeniedBranch(c, b.call, g.result, ok, ok)
        IN
        /\ ~Admitted(g.result)
        /\ call' = [call EXCEPT ![c] = b.call]
        /\ decision' = [decision EXCEPT ![c] = g.result]
        /\ engine_exception' = [engine_exception EXCEPT ![c] = g.exception]
        /\ rate_limiters' = g.rate_limiters
        /\ governance_log_writes' = [governance_log_writes EXCEPT ![c] = @ \o g.writes]
        /\ tool_log_writes' = [tool_log_writes EXCEPT ![c] =
                @ \o b.invocation.writes \o d.writes]
        /\ write_failed' = (write_failed \/ b.invocation.failed \/ g.failed \/ d.failed)
        /\ outcome' = [outcome EXCEPT ![c] = d.outcome]
        /\ if_stored' = [if_stored EXCEPT ![c] =
                [decision |-> h.governance.result,
                 outcome |-> IF Admitted(h.governance.result) THEN Pending
                             ELSE DeniedBranch(c, b.call, h.governance.result,
                                               TRUE, TRUE).outcome]]
    /\ pc' = [pc EXCEPT ![c] = "done"]
    /\ UNCHANGED <<now, upstream_calls, upstream_event, others>>

\* on_call_tool, lines 56-66: call_next returns a result.
UpstreamReturns(c) ==
    /\ pc[c] = "upstream"
    /\ \E r \in Results, ok \in BOOLEAN :
        LET b == SuccessBranch(c, call[c], r, ok) IN
        /\ upstream_event' = [upstream_event EXCEPT ![c] =
                [kind |-> "result", result |-> r, message |-> ""]]
        /\ tool_log_writes' = [tool_log_writes EXCEPT ![c] = @ \o b.writes]
        /\ write_failed' = (write_failed \/ b.failed)
        /\ outcome' = [outcome EXCEPT ![c] = b.outcome]
        /\ if_stored' = [if_stored EXCEPT ![c].outcome =
                SuccessBranch(c, call[c], r, TRUE).outcome]
    /\ pc' = [pc EXCEPT ![c] = "done"]
    /\ UNCHANGED <<now, call, decision, engine_exception, rate_limiters, governance_log_writes, upstream_calls, others>>

\* on_call_tool, lines 56 and 68-76: call_next raises an exception.
UpstreamRaises(c) ==
    /\ pc[c] = "upstream"
    /\ \E e \in UpstreamErrors, ok \in BOOLEAN :
        LET b == ExceptBranch(c, call[c], e, ok) IN
        /\ upstream_event' = [upstream_event EXCEPT ![c] =
                [kind |-> "exception", result |-> NoResult, message |-> e]]
        /\ tool_log_writes' = [tool_log_writes EXCEPT ![c] = @ \o b.writes]
        /\ write_failed' = (write_failed \/ b.failed)
        /\ outcome' = [outcome EXCEPT ![c] = b.outcome]
        /\ if_stored' = [if_stored EXCEPT ![c].outcome =
                ExceptBranch(c, call[c], e, TRUE).outcome]
    /\ pc' = [pc EXCEPT ![c] = "done"]
    /\ UNCHANGED <<now, call, decision, engine_exception, rate_limiters, governance_log_writes, upstream_calls, others>>

\* The task of the call is cancelled while it awaits call_next (the event loop
\* closing after run_servers returned): CancelledError is no Exception, so the
\* except block of on_call_tool does not run.
Cancelled(c) ==
    /\ pc[c] = "upstream"
    /\ upstream_event' = [upstream_event EXCEPT ![c] =
            [kind |-> "cancelled", result |-> NoResult, message |-> ""]]
    /\ outcome' = [outcome EXCEPT ![c] =
            [kind |-> "cancelled", result |-> NoResult, message |-> ""]]
    /\ if_stored' = [if_stored EXCEPT ![c].outcome =
            [kind |-> "cancelled", result |-> NoResult, message |-> ""]]
    /\ pc' = [pc EXCEPT ![c] = "done"]
    /\ UNCHANGED <<now, call, decision, engine_exception, rate_limiters, tool_log_writes, governance_log_writes, write_failed, upstream_calls, others>>

\* The wall clock advances.
Tick ==
    /\ \E d \in TickSteps :
        /\ now + d <= MaxTime
        /\ now' = now + d
    /\ UNCHANGED <<pc, call, decision, engine_exception, rate_limiters, tool_log_writes, governance_log_writes, write_failed, upstream_calls, upstream_event, outcome, if_stored, others>>

Next ==
    \/ \E c \in Calls : CallAllowed(c)
    \/ \E c \in Calls : CallDenied(c)
    \/ \E c \in Calls : UpstreamReturns(c)
    \/ \E c \in Calls : UpstreamRaises(c)
    \/ \E c \in Calls : Cancelled(c)
    \/ Tick

Spec == Init /\ [][Next]_vars

\* ------------------------------------------------------------------ properties
\* The invocation records and the completion records submitted for a session.
Invocations(c) ==
    SelectSeq(tool_log_writes[c], LAMBDA d : d.event_type = "tool_invocation")
Completions(c) ==
    SelectSeq(tool_log_writes[c], LAMBDA d : d.event_type = "tool_completion")

\* The call has a completion record with one of these statuses.
CompletedWith(c, statuses) ==
    \E i \in DOMAIN Completions(c) : Completions(c)[i].status \in statuses

\* The call was checked against the stored governance config of its server.
ConfigApplied(c) ==
    /\ pc[c] # "idle"
    /\ call[c].governance_config = governance_configs[call[c].server_name]

\* The policy violations a denial names.
PolicyViolations ==
    {"time_restriction", "rate_limit", "security_pattern",
     "high_security_sensitive_operation", "high_security_parameter_size"}

\* The error the caller gets on a denial.
GovernanceDenied(reason) ==
    [kind |-> "raised", result |-> NoResult, message |-> "Governance denied: " \o reason]

\* C1: every call that ended allowed, denied by policy or failed upstream has
\* exactly one invocation record and exactly one completion record, each
\* carrying the session_id of the call.
C1_PairedRecords ==
    \A c \in Calls :
        (pc[c] = "done" /\ outcome[c].kind \in {"returned", "raised"}) =>
            /\ Len(Invocations(c)) = 1
            /\ Len(Completions(c)) = 1
            /\ \A i \in DOMAIN tool_log_writes[c] : tool_log_writes[c][i].session_id = c

\* C2: within one 60-second window, the calls to a server with rate_limit N
\* that complete with status success or error are at most N.
C2_RateLimitExactness ==
    now < Window =>
        \A s \in Servers :
            Cardinality({c \in Calls :
                            /\ ConfigApplied(c)
                            /\ call[c].server_name = s
                            /\ CompletedWith(c, {"success", "error"})})
                <= governance_configs[s].rate_limit

\* C3: the upstream is invoked only for calls whose decision was allowed; a
\* denied call never reaches call_next.
C3_DeniedNeverReachesUpstream ==
    \A c \in Calls :
        /\ upstream_calls[c] > 0 => decision[c].allowed
        /\ (pc[c] # "idle" /\ ~decision[c].allowed) =>
                upstream_calls[c] = 0 /\ upstream_event[c] = NoEvent

C3_Witness ==
    \E c \in Calls :
        /\ pc[c] = "done"
        /\ decision[c].policy_violation = "security_pattern"
        /\ upstream_calls[c] = 0
        /\ outcome[c].kind = "raised"

\* C4: a call denied by policy has a completion record, every completion
\* record of its session has status denied and the denial reason as
\* error_message, and the caller gets "Governance denied: <reason>".
C4_DeniedCompletion ==
    \A c \in Calls :
        (pc[c] = "done" /\ decision[c].policy_violation \in PolicyViolations) =>
            /\ Len(Completions(c)) >= 1
            /\ \A i \in DOMAIN Completions(c) :
                    /\ Completions(c)[i].status = "denied"
                    /\ Completions(c)[i].error_message = decision[c].reason
            /\ outcome[c] = GovernanceDenied(decision[c].reason)

\* C5: an exception raised by a step of check_governance makes the decision a
\* denial that names the governance error; the upstream is not called and
\* the caller gets the governance error.
C5_FailClosed ==
    \A c \in Calls :
        engine_exception[c] # "" =>
            /\ ~decision[c].allowed
            /\ decision[c].error
            /\ decision[c].reason = "Governance error: " \o engine_exception[c]
            /\ upstream_calls[c] = 0
            /\ pc[c] = "done"
            /\ outcome[c] = GovernanceDenied(decision[c].reason)

C5_Witness ==
    \E c \in Calls :
        /\ engine_exception[c] = EngineError
        /\ pc[c] = "done"
        /\ upstream_calls[c] = 0
        /\ outcome[c].kind = "raised"

\* C6: a call that has ended, in whatever way (result, denial, upstream
\* exception, cancellation), and has an invocation record has a completion
\* record with the same session_id.
C6_EventualCompletion ==
    \A c \in Calls :
        (pc[c] = "done" /\ Len(Invocations(c)) >= 1) =>
            \E i \in DOMAIN Completions(c) : Completions(c)[i].session_id = c

\* C7: the decision and the outcome of a call are those it would have had
\* with every audit-store write acknowledged.
C7_AuditFailureKeepsOutcome ==
    \A c \in Calls :
        /\ decision[c] = if_stored[c].decision
        /\ outcome[c] = if_stored[c].outcome

C7_Witness ==
    /\ write_failed
    /\ pc[1] = "done"
    /\ \A c \in Calls \ {1} : pc[c] = "idle"
    /\ decision[1].allowed
    /\ Len(governance_log_writes[1]) = 1
    /\ outcome[1] = [kind |-> "returned", result |-> ResultHi, message |-> ""]

\* C8: when the upstream call raises, exactly one completion record is
\* submitted, with status error and the message of the exception, and the
\* caller gets that same exception.
C8_UpstreamErrorRecorded ==
    \A c \in Calls :
        upstream_event[c].kind = "exception" =>
            /\ Len(Completions(c)) = 1
            /\ Completions(c)[1].status = "error"
            /\ Completions(c)[1].error_message = upstream_event[c].message
            /\ outcome[c] =
                [kind |-> "raised", result |-> NoResult,
                 message |-> upstream_event[c].message]

C8_Witness ==
    \E c \in Calls :
        /\ pc[c] = "done"
        /\ upstream_event[c].kind = "exception"
        /\ upstream_event[c].message \in UpstreamErrors
        /\ decision[c].allowed

\* C9: the caller of an allowed call gets the result of the upstream as it
\* was; only the outputs of the audit record are replaced by a truncation
\* stub, exactly when their serialization is over max_content_size.
C9_ResultUnchanged ==
    \A c \in Calls :
        upstream_event[c].kind = "result" =>
            /\ outcome[c] =
                [kind |-> "returned", result |-> upstream_event[c].result, message |-> ""]
            /\ Len(Completions(c)) = 1
            /\ LET serialized == _serialize_tool_outputs(upstream_event[c].result)
                   outputs == Completions(c)[1].outputs
               IN /\ outputs.size = serialized.size
                  /\ outputs.kind =
                        IF serialized.size > max_content_size THEN "_truncated" ELSE "value"

C9_Witness ==
    \E c \in Calls :
        /\ upstream_event[c].kind = "result"
        /\ upstream_event[c].result = ResultBig
        /\ outcome[c].result.text_len = 51200
        /\ Completions(c)[1].outputs = [kind |-> "_truncated", size |-> 51350]

\* C10: every policy decision, allow or deny, has one governance_log entry
\* with the server, the tool, the decision, the policy and a timestamp.
C10_EveryDecisionLogged ==
    \A c \in Calls :
        (pc[c] # "idle" /\ engine_exception[c] = "") =>
            /\ Len(governance_log_writes[c]) = 1
            /\ governance_log_writes[c][1].server_name = call[c].server_name
            /\ governance_log_writes[c][1].tool_name = call[c].tool_name
            /\ governance_log_writes[c][1].decision = "allowed" <=> decision[c].allowed
            /\ governance_log_writes[c][1].timestamp \in 0..MaxTime

\* ------------------------------------------------ the audit store on its own
\* Lengths of serialized inputs around max_content_size.
ProbeSizes ==
    {2, max_content_size - 1, max_content_size, max_content_size + 1, 5 * max_content_size}

\* Arguments of these serialized lengths.
ProbeArguments == {[text |-> "", size |-> n, json_size |-> n] : n \in ProbeSizes}

\* Results whose serialization has these lengths (one less with isError true).
ProbeResults ==
    {[isError |-> e, text_len |-> n - SerializedResultOverhead] :
        e \in BOOLEAN, n \in ProbeSizes \ {2}}

\* The audit records the manager can hand to the store.
StoreProbes ==
    {[event_type |-> "tool_invocation", server_name |-> s, tool_name |-> t,
      arguments |-> a, outputs |-> NoResult, status |-> "", error_message |-> "", ok |-> ok] :
        s \in Servers, t \in Tools, a \in ProbeArguments, ok \in BOOLEAN}
    \cup
    {[event_type |-> "tool_completion", server_name |-> s, tool_name |-> "echo",
      arguments |-> ArgHi, outputs |-> r, status |-> st, error_message |-> "None", ok |-> ok] :
        s \in Servers, r \in ProbeResults \cup {NoResult},
        st \in {"success", "error", "denied"}, ok \in BOOLEAN}

InitStore ==
    /\ probe \in {[input |-> i, done |-> FALSE, output |-> <<>>] : i \in StoreProbes}
    /\ InterceptorInit
    /\ LoaderInit
    /\ SupervisorInit
    /\ CoroutinesInit

\* _log_tool_invocation on its own: the invocation record reaches store_tool_log.
LogInvocation ==
    /\ ~probe.done
    /\ probe.input.event_type = "tool_invocation"
    /\ probe' = [probe EXCEPT
            !.done = TRUE,
            !.output = _log_tool_invocation(1, probe.input.server_name,
                            probe.input.tool_name, probe.input.arguments, probe.input.ok)]
    /\ UNCHANGED <<interceptor, loader, supervisor, coroutines>>

\* _log_tool_completion on its own: the completion record reaches store_tool_log.
LogCompletion ==
    /\ ~probe.done
    /\ probe.input.event_type = "tool_completion"
    /\ probe' = [probe EXCEPT
            !.done = TRUE,
            !.output = _log_tool_completion(1, probe.input.server_name,
                            probe.input.tool_name, probe.input.arguments, probe.input.outputs,
                            probe.input.status, probe.input.error_message, probe.input.ok)]
    /\ UNCHANGED <<interceptor, loader, supervisor, coroutines>>

NextStore ==
    \/ LogInvocation
    \/ LogCompletion

SpecStore == InitStore /\ [][NextStore]_vars

\* A field of a stored document is within the limit, or a stub with the
\* length of the serialization it replaced.
BoundedField(field, original_size) ==
    /\ field.kind = "value" => field.size = original_size /\ field.size <= max_content_size
    /\ field.kind = "_truncated" => field.size = original_size /\ field.size > max_content_size
    /\ field.kind \in {"value", "_truncated", "absent"}

\* C11: every document handed to tool_logs has inputs and outputs of
\* serialized length at most max_content_size, or a truncation stub that
\* carries the original length in their place.
C11_BoundedPayloads ==
    probe.done =>
        \A i \in DOMAIN probe.output.writes :
            LET document == probe.output.writes[i] IN
            /\ BoundedField(document.inputs, probe.input.arguments.json_size)
            /\ BoundedField(document.outputs,
                    _serialize_tool_outputs(probe.input.outputs).size)

C11_Witness ==
    /\ probe.done
    /\ probe.input.event_type = "tool_invocation"
    /\ probe.input.arguments.json_size = max_content_size + 1
    /\ probe.output.writes[1].inputs = [kind |-> "_truncated", size |-> max_content_size + 1]

\* The blocked patterns configured for a server, the built-in set when none is.
ConfiguredPatterns(server_name) ==
    IF server_governance[server_name].blocked_patterns # <<>>
    THEN server_governance[server_name].blocked_patterns
    ELSE DefaultPolicy.blocked_patterns

\* The configured patterns that match the arguments of a call.
MatchedPatterns(c) ==
    LET patterns == ConfiguredPatterns(call[c].server_name)
    IN {patterns[i] : i \in {j \in DOMAIN patterns :
                                re_search(patterns[j], call[c].arguments.text)}}

\* C12: a call whose arguments match one of the blocked patterns configured
\* for its server is denied, and unless the time window or the rate limit
\* denied it first, the denial is security_pattern and names a matched pattern.
C12_ConfiguredPatternsBlock ==
    \A c \in Calls :
        (ConfigApplied(c) /\ engine_exception[c] = "" /\ MatchedPatterns(c) # {}) =>
            /\ ~decision[c].allowed
            /\ decision[c].policy_violation \in
                    {"time_restriction", "rate_limit", "security_pattern"}
            /\ decision[c].policy_violation = "security_pattern" =>
                    \E pattern \in MatchedPatterns(c) :
                        decision[c].reason = "Security pattern detected: " \o pattern

\* --------------------------------------------- the policy engine on its own
\* Governance configs handed to check_governance: none found, a partial one,
\* and full ones with high security on and off.
EngineConfigs ==
    {<<>>,
     [rate_limit |-> 2],
     [rate_limit |-> 2, high_security |-> FALSE, allowed_hours |-> 0..23],
     [rate_limit |-> 2, high_security |-> TRUE, allowed_hours |-> 0..23],
     [rate_limit |-> 2, high_security |-> TRUE, allowed_hours |-> 9..17]}

\* Rate limiter states of the probed server: never used, and full at instant 0.
EngineLimiters == {<<>>, [s \in {"db-srv"} |-> <<0, 0>>]}

\* The inputs of one check_governance call at instant 0.
EngineProbes ==
    [server_name : {"db-srv"}, tool_name : Tools,
     parameters : ProbeArguments \cup Arguments,
     governance_config : EngineConfigs, limiters : EngineLimiters,
     current_hour : HourSamples, fault : FaultPoints, ok : BOOLEAN]

InitEngine ==
    /\ probe \in {[input |-> i, done |-> FALSE, output |-> <<>>] : i \in EngineProbes}
    /\ InterceptorInit
    /\ LoaderInit
    /\ SupervisorInit
    /\ CoroutinesInit

\* check_governance on its own.
CheckGovernance ==
    /\ ~probe.done
    /\ probe' = [probe EXCEPT
            !.done = TRUE,
            !.output = check_governance(probe.input.server_name, probe.input.tool_name,
                            probe.input.parameters, probe.input.governance_config,
                            probe.input.limiters, probe.input.current_hour, 0,
                            probe.input.fault, probe.input.ok)]
    /\ UNCHANGED <<interceptor, loader, supervisor, coroutines>>

NextEngine == CheckGovernance

SpecEngine == InitEngine /\ [][NextEngine]_vars

\* The governance config of the probed call sets high security.
HighSecuritySet ==
    /\ "high_security" \in DOMAIN probe.input.governance_config
    /\ probe.input.governance_config.high_security

\* The denials of elevated scrutiny.
HighSecurityViolations ==
    {"high_security_sensitive_operation", "high_security_parameter_size"}

\* The sample tool names that contain a sensitive operation when lower-cased.
SensitiveTools == {"Delete_User"}

\* C13: elevated scrutiny denies only when the governance config sets high
\* security; when it does, a call that passed the earlier checks is denied
\* with high_security_sensitive_operation if its lower-cased tool name
\* contains a sensitive operation, else with high_security_parameter_size if
\* its inputs are over 10,000 characters, else it is allowed.
C13_ElevatedScrutiny ==
    (probe.done /\ probe.input.fault = "none") =>
        LET result == probe.output.result
            earlier == result.policy_violation \in
                            {"time_restriction", "rate_limit", "security_pattern"}
        IN /\ result.policy_violation \in HighSecurityViolations => HighSecuritySet
           /\ (HighSecuritySet /\ ~earlier) =>
                IF probe.input.tool_name \in SensitiveTools
                THEN result.policy_violation = "high_security_sensitive_operation"
                ELSE IF probe.input.parameters.size > 10000
                THEN result.policy_violation = "high_security_parameter_size"
                ELSE result.allowed
           /\ (~HighSecuritySet /\ ~earlier) => result.allowed

C13_Witness ==
    /\ probe.done
    /\ HighSecuritySet
    /\ probe.input.tool_name = "echo"
    /\ probe.input.parameters.size = 10001
    /\ probe.output.result.policy_violation = "high_security_parameter_size"
    /\ ~probe.output.result.allowed

\* C14: an upstream result with isError true is recorded with completion
\* status error, never with status success.
C14_ErrorResultRecordedAsError ==
    \A c \in Calls :
        (upstream_event[c].kind = "result" /\ upstream_event[c].result.isError) =>
            /\ Len(Completions(c)) = 1
            /\ Completions(c)[1].status = "error"

\* ------------------------------------------------------------- ConfigLoader
\* base_port of the default config, and the bounds of a valid port.
MinPort == 1024
MaxPort == 65535
\* The port given to a separate_port server without a valid port.
DefaultSeparatePort == 8174
\* The rate limit given to a server without a valid rate_limit.
DefaultRateLimit == 100

\* dict.get(key, default).
Get(d, key, default) == IF key \in DOMAIN d THEN d[key] ELSE default

\* dict.update(u), and {**d, **u}.
Update(d, u) ==
    [k \in DOMAIN d \cup DOMAIN u |-> IF k \in DOMAIN u THEN u[k] ELSE d[k]]

\* str.startswith(prefix).
StartsWith(str, prefix) ==
    Len(str) >= Len(prefix) /\ SubSeq(str, 1, Len(prefix)) = prefix


\* isinstance(port, int) and 1024 <= port <= 65535, on integer ports.
ValidPort(port) == port >= MinPort /\ port <= MaxPort

\* The governance section of a server after validation: defaults filled in,
\* unknown mode and security_level replaced, port and rate_limit coerced.
ValidatedServerGovernance(governance) ==
    LET g1 == IF "mode" \notin DOMAIN governance
              THEN Update(governance, [mode |-> "unified"]) ELSE governance
        g2 == IF g1.mode \notin {"unified", "separate_port"}
              THEN Update(g1, [mode |-> "unified"]) ELSE g1
        g3 == IF "rate_limit" \in DOMAIN g2 /\ g2.rate_limit >= 1
              THEN g2 ELSE Update(g2, [rate_limit |-> DefaultRateLimit])
        g4 == Update([hide_original_tools |-> TRUE, governance_prefix |-> "governed_",
                      detailed_tracking |-> TRUE], g3)
        g5 == IF Get(g4, "security_level", "medium") \notin {"low", "medium", "high"}
              THEN Update(g4, [security_level |-> "medium"]) ELSE g4
        g6 == IF g5.mode = "separate_port"
                    /\ ("port" \notin DOMAIN g5 \/ ~ValidPort(Get(g5, "port", 0)))
              THEN Update(g5, [port |-> DefaultSeparatePort]) ELSE g5
        g7 == IF "allowed_hours" \in DOMAIN g6 /\ ~(g6.allowed_hours \subseteq 0..23)
              THEN Update(g6, [allowed_hours |-> 0..23]) ELSE g6
    IN g7

\* _validate_server_config: None (dropped) or the server config with its
\* defaults filled in.
_validate_server_config(server_name, server_config) ==
    LET dropped == [dropped |-> TRUE, config |-> <<>>]
        transport == Get(server_config, "transport", "")
        with_stdio_defaults == Update([args |-> <<>>, env |-> <<>>], server_config)
        kept(config) ==
            [dropped |-> FALSE,
             config |-> Update(config,
                [governance |-> ValidatedServerGovernance(Get(config, "governance", <<>>))])]
    IN  IF "transport" \notin DOMAIN server_config THEN dropped
        ELSE IF transport = "stdio"
            THEN IF "command" \notin DOMAIN server_config THEN dropped
                 ELSE kept(with_stdio_defaults)
        ELSE IF transport \in {"streamable-http", "http"}
            THEN IF "url" \notin DOMAIN server_config THEN dropped
                 ELSE IF ~(StartsWith(server_config.url, "http://")
                            \/ StartsWith(server_config.url, "https://")) THEN dropped
                 ELSE kept(server_config)
        ELSE dropped

\* Sample server configs: each key present or absent, enum values known and
\* unknown, ports in and out of range.
TransportOptions ==
    {<<>>} \cup {[transport |-> t] : t \in {"stdio", "http", "streamable-http", "sse"}}
CommandOptions == {<<>>, [command |-> "echo"]}
UrlOptions == {<<>>, [url |-> "http://up"], [url |-> "https://up"], [url |-> "ftp://up"]}
ModeOptions == {<<>>} \cup {[mode |-> m] : m \in {"unified", "separate_port", "bogus"}}
SecurityLevelOptions == {<<>>, [security_level |-> "high"], [security_level |-> "bogus"]}
PortOptions == {<<>>, [port |-> 80], [port |-> 9000]}
GovernanceOptions ==
    {<<>>} \cup
    {[governance |-> Update(Update(m, l), p)] :
        m \in ModeOptions, l \in SecurityLevelOptions, p \in PortOptions}
ServerConfigs ==
    {Update(Update(Update(t, c), u), g) :
        t \in TransportOptions, c \in CommandOptions, u \in UrlOptions,
        g \in GovernanceOptions}

InitValidate ==
    /\ probe \in {[input |-> i, done |-> FALSE, output |-> <<>>] : i \in ServerConfigs}
    /\ InterceptorInit
    /\ LoaderInit
    /\ SupervisorInit
    /\ CoroutinesInit

\* _validate_server_config on its own.
ValidateServer ==
    /\ ~probe.done
    /\ probe' = [probe EXCEPT
            !.done = TRUE,
            !.output = _validate_server_config("srv", probe.input)]
    /\ UNCHANGED <<interceptor, loader, supervisor, coroutines>>

NextValidate == ValidateServer

SpecValidate == InitValidate /\ [][NextValidate]_vars

\* The required-field checks: transport present; command present for stdio;
\* url present and starting with http:// or https:// for the http transports.
FailsRequiredField(server_config) ==
    \/ "transport" \notin DOMAIN server_config
    \/ /\ "transport" \in DOMAIN server_config
       /\ server_config.transport = "stdio"
       /\ "command" \notin DOMAIN server_config
    \/ /\ "transport" \in DOMAIN server_config
       /\ server_config.transport \in {"http", "streamable-http"}
       /\ \/ "url" \notin DOMAIN server_config
          \/ /\ "url" \in DOMAIN server_config
             /\ server_config.url \notin {"http://up", "https://up"}

\* C17: a server is dropped if and only if it fails a required-field check;
\* an unknown transport, mode or security_level drops nothing, and a kept
\* server has a known mode and security_level.
C17_ValidationDisposition ==
    probe.done =>
        /\ probe.output.dropped <=> FailsRequiredField(probe.input)
        /\ ~probe.output.dropped =>
            /\ probe.output.config.governance.mode \in {"unified", "separate_port"}
            /\ Get(probe.output.config.governance, "security_level", "medium")
                    \in {"low", "medium", "high"}

\* ---------------------------------------------------------------------------
\* ConfigLoader.load_config
\* ---------------------------------------------------------------------------

\* load_config calls modelled per loader.
MaxLoads == 3

\* Sample file contents.  "bad" is not JSON; the others parse to the configs
\* of json_loads below.
Contents == {"bad", "A", "B", "C"}

\* json.loads(config_content): ok is false where it raises JSONDecodeError.
json_loads(config_content) ==
    CASE config_content = "A" ->
            [ok |-> TRUE,
             value |-> [governance |-> [deployment_mode |-> "multi-port", base_port |-> 9000],
                        mcpServers |-> [s1 |-> [transport |-> "stdio", command |-> "echo"]]]]
      [] config_content = "B" ->
            [ok |-> TRUE,
             value |-> [mcpServers |-> [s1 |-> [transport |-> "http", url |-> "http://up"]]]]
      [] config_content = "C" ->
            [ok |-> TRUE,
             value |-> [governance |-> [deployment_mode |-> "bogus", base_port |-> 80],
                        mcpServers |-> [s1 |-> [transport |-> "sse"],
                                        s2 |-> [transport |-> "stdio", command |-> "echo",
                                                governance |-> [mode |-> "separate_port"]]]]]
      [] OTHER -> [ok |-> FALSE, value |-> <<>>]

\* hashlib.sha256(config_content.encode()).hexdigest(): distinct on the sample
\* contents, and never the initial config_hash.
sha256(config_content) == "sha256:" \o config_content

\* _validate_config(config), started from the shared governance dict:
\* default_config.copy() is shallow, so validated_config['governance'] is
\* default_config['governance'] itself, and the update and the coercions are
\* made in that dict.
_validate_config(governance, config) ==
    LET g1 == IF "governance" \in DOMAIN config
              THEN Update(governance, config.governance) ELSE governance
        mcpServers == Get(config, "mcpServers", <<>>)
        g2 == IF g1.deployment_mode \notin {"unified", "multi-port", "hybrid"}
              THEN Update(g1, [deployment_mode |-> "unified"]) ELSE g1
        g3 == IF Get(g2, "transformation_strategy", "fastmcp_native")
                    \notin {"fastmcp_native", "custom_wrapper"}
              THEN Update(g2, [transformation_strategy |-> "fastmcp_native"]) ELSE g2
        g4 == IF ~ValidPort(Get(g3, "base_port", DefaultBasePort))
              THEN Update(g3, [base_port |-> DefaultBasePort]) ELSE g3
        g5 == IF Get(g4, "mongodb_uri", "") = ""
              THEN Update(g4, [mongodb_uri |-> "mongodb://localhost:27017"]) ELSE g4
        kept == {n \in DOMAIN mcpServers : ~_validate_server_config(n, mcpServers[n]).dropped}
    IN [governance |-> g5,
        mcpServers |-> [n \in kept |-> _validate_server_config(n, mcpServers[n]).config]]

\* A variant of the cache test that ignores the content hash.
CacheHit_IgnoresHash(current_hash) == DOMAIN config_cache # {}

\* current_hash == self.config_hash and self.config_cache
CacheHit(current_hash) ==
    /\ current_hash = config_hash
    /\ DOMAIN config_cache # {}

\* The plan a load_config call returns, as the caller reads it right after
\* the call: its governance is the shared dict.
Plan(governance, mcpServers) == [governance |-> governance, mcpServers |-> mcpServers]

Loaded(path, plan) ==
    [config_file |-> config_file, touched |-> file_touched, path |-> path, plan |-> plan]

\* The file is written with new content.
WriteFile ==
    /\ \E c \in Contents :
        /\ ~(config_file.exists /\ config_file.content = c)
        /\ config_file' = [exists |-> TRUE, readable |-> TRUE, content |-> c]
    /\ file_touched' = TRUE
    /\ UNCHANGED <<default_governance, config_cache, config_hash, loads, interceptor, probe, supervisor, coroutines>>

\* The file is deleted.
RemoveFile ==
    /\ config_file.exists
    /\ config_file' = FileAbsent
    /\ file_touched' = TRUE
    /\ UNCHANGED <<default_governance, config_cache, config_hash, loads, interceptor, probe, supervisor, coroutines>>

\* The file loses its read permission: open() raises.
MakeUnreadable ==
    /\ config_file.exists
    /\ config_file.readable
    /\ config_file' = [config_file EXCEPT !.readable = FALSE]
    /\ file_touched' = TRUE
    /\ UNCHANGED <<default_governance, config_cache, config_hash, loads, interceptor, probe, supervisor, coroutines>>

\* load_config(), one call.
LoadConfig ==
    /\ Len(loads) < MaxLoads
    /\ file_touched' = FALSE
    /\ UNCHANGED <<config_file, interceptor, probe, supervisor, coroutines>>
    /\ IF ~config_file.exists THEN
            \* return self.default_config
            /\ loads' = Append(loads, Loaded("absent", Plan(default_governance, <<>>)))
            /\ UNCHANGED <<default_governance, config_cache, config_hash>>
       ELSE IF ~config_file.readable THEN
            \* except Exception: return self.default_config
            /\ loads' = Append(loads, Loaded("unreadable", Plan(default_governance, <<>>)))
            /\ UNCHANGED <<default_governance, config_cache, config_hash>>
       ELSE IF CacheHit(sha256(config_file.content)) THEN
            \* return self.config_cache
            /\ loads' = Append(loads,
                    Loaded("cache", Plan(default_governance, config_cache.mcpServers)))
            /\ UNCHANGED <<default_governance, config_cache, config_hash>>
       ELSE IF ~json_loads(config_file.content).ok THEN
            \* except json.JSONDecodeError: return self.default_config
            /\ loads' = Append(loads, Loaded("malformed", Plan(default_governance, <<>>)))
            /\ UNCHANGED <<default_governance, config_cache, config_hash>>
       ELSE LET validated_config ==
                    _validate_config(default_governance, json_loads(config_file.content).value)
            IN  /\ default_governance' = validated_config.governance
                /\ config_cache' = [mcpServers |-> validated_config.mcpServers]
                /\ config_hash' = sha256(config_file.content)
                /\ loads' = Append(loads, Loaded("parsed", validated_config))

NextLoader ==
    \/ WriteFile
    \/ RemoveFile
    \/ MakeUnreadable
    \/ LoadConfig

InitLoader ==
    /\ probe = NoProbe
    /\ InterceptorInit
    /\ LoaderInit
    /\ SupervisorInit
    /\ CoroutinesInit

SpecLoader == InitLoader /\ [][NextLoader]_vars

\* C15: a load that found the file absent, unreadable or malformed returned
\* the built-in default plan: deployment_mode unified, base_port 8173 and no
\* upstreams, whatever was loaded before.
C15_FallbackIsBuiltInDefault ==
    \A i \in DOMAIN loads :
        loads[i].path \in {"absent", "unreadable", "malformed"} =>
            /\ loads[i].plan.governance.deployment_mode = "unified"
            /\ loads[i].plan.governance.base_port = DefaultBasePort
            /\ DOMAIN loads[i].plan.mcpServers = {}

\* The last load before load i that parsed the file (0 if none).
LastParsed(i) ==
    LET before == {j \in 1..(i - 1) : loads[j].path = "parsed"}
    IN IF before = {} THEN 0 ELSE CHOOSE j \in before : \A k \in before : k <= j

\* C16: two consecutive loads of the same unchanged file return equal plans;
\* where the first of them parsed the file or was itself served from the
\* cache, the second is served from the cache; and a load is served from the
\* cache only when the file holds the content of the last parsed load.
C16_IdempotentAndCached ==
    /\ \A i \in DOMAIN loads :
        (i > 1 /\ ~loads[i].touched) =>
            /\ loads[i].plan = loads[i - 1].plan
            /\ loads[i - 1].path \in {"parsed", "cache"} => loads[i].path = "cache"
    /\ \A i \in DOMAIN loads :
        loads[i].path = "cache" =>
            /\ LastParsed(i) # 0
            /\ loads[LastParsed(i)].config_file.content = loads[i].config_file.content

\* A parsed load of a file followed by a load of the same untouched file, and
\* a later load of changed content that was parsed afresh.
C16_Witness ==
    /\ Len(loads) = 3
    /\ loads[1].path = "parsed"
    /\ loads[2].path = "cache" /\ ~loads[2].touched
    /\ loads[3].path = "parsed" /\ loads[3].touched
    /\ loads[3].config_file.content # loads[2].config_file.content

\* ---------------------------------------------------------------------------
\* setup_all_servers and validate_port_conflicts
\* ---------------------------------------------------------------------------

\* Sample deployments of two upstreams.  A dict keeps its insertion order;
\* the order of config['mcpServers'] is carried beside the config.
UpstreamOrders == {<<"a", "b">>, <<"unified", "b">>, <<"b", "unified">>}
DeploymentModes == {"unified", "multi-port", "hybrid"}
BasePorts == {DefaultBasePort, 9000}
UpstreamGovernances ==
    {Update(Update(m, p), x) :
        m \in {<<>>, [mode |-> "separate_port"]},
        p \in {<<>>, [port |-> 9000]},
        x \in {<<>>, [governance_prefix |-> "x"]}}
UpstreamConfigs ==
    {[transport |-> "stdio", command |-> "echo", governance |-> g] : g \in UpstreamGovernances}

\* async with asyncio.timeout(10), seconds.
HandshakeTimeout == 10

\* What an upstream does when the manager connects to it: whether it answers
\* the handshake or refuses it, after how many seconds, and the tools it lists.
UpstreamHandshakes ==
    {[answers |-> TRUE, seconds |-> 1],
     [answers |-> FALSE, seconds |-> 1],
     [answers |-> TRUE, seconds |-> HandshakeTimeout + 1]}
UpstreamBehaviours ==
    {[answers |-> h.answers, seconds |-> h.seconds, tools |-> t] :
        h \in UpstreamHandshakes, t \in {<<"read">>, <<"write">>}}

\* A variant of the handshake without the timeout.
MountOutcome_NoTimeout(upstream) ==
    IF upstream.answers THEN "mounted" ELSE "failed"

\* The way _mount_server_with_governance ends: the TimeoutError branch, the
\* Exception branch, or return True after the mount.
MountOutcome(upstream) ==
    IF upstream.seconds >= HandshakeTimeout THEN "timeout"
    ELSE IF ~upstream.answers THEN "failed"
    ELSE "mounted"

Deployments ==
    {[config |-> _validate_config(DefaultGovernance,
                    [governance |-> [deployment_mode |-> d, base_port |-> b],
                     mcpServers |-> [n \in {o[1], o[2]} |-> IF n = o[1] THEN c1 ELSE c2]]),
      order |-> o,
      upstreams |-> [n \in {o[1], o[2]} |-> IF n = o[1] THEN u1 ELSE u2]] :
        d \in DeploymentModes, b \in BasePorts, o \in UpstreamOrders,
        c1 \in UpstreamConfigs, c2 \in UpstreamConfigs,
        u1 \in UpstreamBehaviours, u2 \in UpstreamBehaviours}

\* The name FastMCP exposes for a tool of a proxy mounted with a prefix.
ExposedName(mount_prefix, tool) == mount_prefix \o "_" \o tool

\* _mount_server_with_governance: the tools the mount adds to the front-end;
\* none when the connection fails or times out.
RECURSIVE MountedTools(_, _, _)
MountedTools(server_name, mount_prefix, tools) ==
    IF tools = <<>> THEN <<>>
    ELSE <<[upstream |-> server_name, name |-> ExposedName(mount_prefix, Head(tools))]>>
            \o MountedTools(server_name, mount_prefix, Tail(tools))

_mount_server_with_governance(server_name, server_config, upstream) ==
    IF MountOutcome(upstream) = "mounted"
    THEN MountedTools(server_name,
            Get(Get(server_config, "governance", <<>>), "governance_prefix", "governed_"),
            upstream.tools)
    ELSE <<>>

\* _setup_server_routes_and_mounts: every server of server_configs, in order.
RECURSIVE _setup_server_routes_and_mounts(_, _, _)
_setup_server_routes_and_mounts(deployment, order, server_configs) ==
    IF order = <<>> THEN <<>>
    ELSE (IF Head(order) \in server_configs
          THEN _mount_server_with_governance(Head(order),
                    deployment.config.mcpServers[Head(order)],
                    deployment.upstreams[Head(order)])
          ELSE <<>>)
         \o _setup_server_routes_and_mounts(deployment, Tail(order), server_configs)

\* The loop of _setup_multi_port_mode and of the separate servers of
\* _setup_hybrid_mode: self.servers[server_name] = {...} for each server.
RECURSIVE IndividualServers(_, _, _, _)
IndividualServers(deployment, order, server_configs, servers) ==
    IF order = <<>> THEN servers
    ELSE LET server_name == Head(order)
             server_config == deployment.config.mcpServers[server_name]
             port == Get(Get(server_config, "governance", <<>>), "port", DefaultSeparatePort)
             entry == [port |-> port,
                       mounts |-> _mount_server_with_governance(server_name, server_config,
                                        deployment.upstreams[server_name])]
         IN IndividualServers(deployment, Tail(order), server_configs,
                IF server_name \in server_configs
                THEN Update(servers, [n \in {server_name} |-> entry])
                ELSE servers)

ServerMode(deployment, server_name, default) ==
    Get(Get(deployment.config.mcpServers[server_name], "governance", <<>>), "mode", default)

_setup_unified_mode(deployment) ==
    [unified |-> [port |-> deployment.config.governance.base_port,
                  mounts |-> _setup_server_routes_and_mounts(deployment, deployment.order,
                                    DOMAIN deployment.config.mcpServers)]]

_setup_multi_port_mode(deployment) ==
    IndividualServers(deployment, deployment.order, DOMAIN deployment.config.mcpServers, <<>>)

_setup_hybrid_mode(deployment) ==
    LET names == DOMAIN deployment.config.mcpServers
        unified_servers == {n \in names : ServerMode(deployment, n, "unified") = "unified"}
        separate_servers == {n \in names : ServerMode(deployment, n, "None") = "separate_port"}
        servers == IF unified_servers # {}
                   THEN [unified |->
                            [port |-> deployment.config.governance.base_port,
                             mounts |-> _setup_server_routes_and_mounts(deployment,
                                            deployment.order, unified_servers)]]
                   ELSE <<>>
    IN IndividualServers(deployment, deployment.order, separate_servers, servers)

\* What the calls of _mount_server_with_governance returned and logged, for
\* the servers of server_configs in order.
RECURSIVE MountReports(_, _, _)
MountReports(deployment, order, server_configs) ==
    IF order = <<>> THEN <<>>
    ELSE (IF Head(order) \in server_configs
          THEN <<[server_name |-> Head(order),
                  success |-> MountOutcome(deployment.upstreams[Head(order)]) = "mounted",
                  outcome |-> MountOutcome(deployment.upstreams[Head(order)])]>>
          ELSE <<>>)
         \o MountReports(deployment, Tail(order), server_configs)

\* The mounts setup_all_servers attempts, in the order of the attempts.
mount_reports(deployment) ==
    LET names == DOMAIN deployment.config.mcpServers
        unified_servers == {n \in names : ServerMode(deployment, n, "unified") = "unified"}
        separate_servers == {n \in names : ServerMode(deployment, n, "None") = "separate_port"}
    IN IF deployment.config.governance.deployment_mode = "hybrid"
       THEN MountReports(deployment, deployment.order, unified_servers)
                \o MountReports(deployment, deployment.order, separate_servers)
       ELSE MountReports(deployment, deployment.order, names)

\* setup_all_servers: self.servers, front-end name -> port and mounted tools.
setup_all_servers(deployment) ==
    CASE deployment.config.governance.deployment_mode = "unified" ->
            _setup_unified_mode(deployment)
      [] deployment.config.governance.deployment_mode = "multi-port" ->
            _setup_multi_port_mode(deployment)
      [] deployment.config.governance.deployment_mode = "hybrid" ->
            _setup_hybrid_mode(deployment)

\* f"Port {port} conflict: {server_name}"
ConflictMessage(port, server_name) == "Port " \o ToString(port) \o " conflict: " \o server_name

\* The loop of validate_port_conflicts.
RECURSIVE PortConflicts(_, _, _, _)
PortConflicts(config, order, used_ports, conflicts) ==
    IF order = <<>> THEN conflicts
    ELSE LET server_name == Head(order)
             governance == Get(config.mcpServers[server_name], "governance", <<>>)
             port == Get(governance, "port", DefaultSeparatePort)
         IN IF Get(governance, "mode", "None") # "separate_port"
            THEN PortConflicts(config, Tail(order), used_ports, conflicts)
            ELSE IF port \in {used_ports[k] : k \in DOMAIN used_ports}
            THEN PortConflicts(config, Tail(order), used_ports,
                    Append(conflicts, ConflictMessage(port, server_name)))
            ELSE PortConflicts(config, Tail(order),
                    Update(used_ports, [n \in {server_name} |-> port]), conflicts)

validate_port_conflicts(config, order) ==
    PortConflicts(config, order,
        [unified |-> Get(Get(config, "governance", <<>>), "base_port", DefaultBasePort)],
        <<>>)

InitDeploy ==
    /\ probe \in {[input |-> d, done |-> FALSE, output |-> <<>>] : d \in Deployments}
    /\ InterceptorInit
    /\ LoaderInit
    /\ SupervisorInit
    /\ CoroutinesInit

\* setup_all_servers on its own.
SetupAllServers ==
    /\ ~probe.done
    /\ probe' = [probe EXCEPT
            !.done = TRUE,
            !.output = [op |-> "setup_all_servers",
                        servers |-> setup_all_servers(probe.input),
                        reports |-> mount_reports(probe.input),
                        conflicts |-> <<>>]]
    /\ UNCHANGED <<interceptor, loader, supervisor, coroutines>>

\* validate_port_conflicts on its own.
ValidatePortConflicts ==
    /\ ~probe.done
    /\ probe' = [probe EXCEPT
            !.done = TRUE,
            !.output = [op |-> "validate_port_conflicts",
                        servers |-> <<>>,
                        reports |-> <<>>,
                        conflicts |-> validate_port_conflicts(probe.input.config,
                                                              probe.input.order)]]
    /\ UNCHANGED <<interceptor, loader, supervisor, coroutines>>

NextDeploy ==
    \/ SetupAllServers
    \/ ValidatePortConflicts

SpecDeploy == InitDeploy /\ [][NextDeploy]_vars

\* C18: in the deployment setup_all_servers builds, no two front-ends have
\* the same port.
C18_DistinctFrontEndPorts ==
    (probe.done /\ probe.output.op = "setup_all_servers") =>
        \A n1 \in DOMAIN probe.output.servers :
            \A n2 \in DOMAIN probe.output.servers :
                n1 # n2 => probe.output.servers[n1].port # probe.output.servers[n2].port

\* C19: in every front-end, no two mounted tools have the same exposed name.
C19_DistinctExposedNames ==
    (probe.done /\ probe.output.op = "setup_all_servers") =>
        \A n \in DOMAIN probe.output.servers :
            LET mounts == probe.output.servers[n].mounts
            IN \A i \in DOMAIN mounts :
                \A j \in DOMAIN mounts :
                    i # j => mounts[i].name # mounts[j].name

\* The positions in order of the separate_port upstreams, and their ports.
SeparatePositions(config, order) ==
    {i \in DOMAIN order :
        Get(Get(config.mcpServers[order[i]], "governance", <<>>), "mode", "None")
            = "separate_port"}

SeparatePort(config, order, i) ==
    Get(Get(config.mcpServers[order[i]], "governance", <<>>), "port", DefaultSeparatePort)

\* The separate_port upstreams whose port is base_port or the port of an
\* earlier separate_port upstream.
Clashing(config, order) ==
    {i \in SeparatePositions(config, order) :
        \/ SeparatePort(config, order, i) = config.governance.base_port
        \/ \E j \in SeparatePositions(config, order) :
            j < i /\ SeparatePort(config, order, j) = SeparatePort(config, order, i)}

\* C20: validate_port_conflicts names exactly the upstreams whose port is
\* base_port or the port of an earlier upstream, whatever the upstreams are
\* called; its list is empty exactly when the ports are pairwise distinct.
C20_PortConflictsExact ==
    (probe.done /\ probe.output.op = "validate_port_conflicts") =>
        LET config == probe.input.config
            order == probe.input.order
            conflicts == probe.output.conflicts
        IN /\ {conflicts[k] : k \in DOMAIN conflicts}
                = {ConflictMessage(SeparatePort(config, order, i), order[i]) :
                        i \in Clashing(config, order)}
           /\ conflicts = <<>> <=> Clashing(config, order) = {}

\* The front-ends of servers on which an upstream has a mounted tool.
FrontEndsOf(servers, upstream) ==
    {f \in DOMAIN servers :
        \E i \in DOMAIN servers[f].mounts : servers[f].mounts[i].upstream = upstream}

\* The upstreams with a mounted tool on a front-end.
UpstreamsOn(servers, f) ==
    {servers[f].mounts[i].upstream : i \in DOMAIN servers[f].mounts}

\* The upstream is on the shared front-end at base_port, and nowhere else.
OnSharedFrontEnd(deployment, servers, upstream) ==
    /\ FrontEndsOf(servers, upstream) = {"unified"}
    /\ servers["unified"].port = deployment.config.governance.base_port

\* The upstream is on a front-end of its own, and nowhere else.
OnOwnFrontEnd(servers, upstream) ==
    /\ Cardinality(FrontEndsOf(servers, upstream)) = 1
    /\ \A f \in FrontEndsOf(servers, upstream) : UpstreamsOn(servers, f) = {upstream}

\* C21: every configured upstream that answers the handshake is mounted on
\* exactly one front-end: the shared one at base_port in unified mode and for
\* mode=unified upstreams in hybrid mode, one of its own in multi-port mode
\* and for mode=separate_port upstreams in hybrid mode.
C21_MountedOnFrontEndOfMode ==
    (probe.done /\ probe.output.op = "setup_all_servers") =>
        LET deployment == probe.input
            servers == probe.output.servers
            deployment_mode == deployment.config.governance.deployment_mode
        IN \A n \in DOMAIN deployment.config.mcpServers :
            MountOutcome(deployment.upstreams[n]) = "mounted" =>
                CASE deployment_mode = "unified" ->
                        OnSharedFrontEnd(deployment, servers, n)
                  [] deployment_mode = "multi-port" ->
                        OnOwnFrontEnd(servers, n)
                  [] deployment_mode = "hybrid" ->
                        IF ServerMode(deployment, n, "unified") = "unified"
                        THEN OnSharedFrontEnd(deployment, servers, n)
                        ELSE OnOwnFrontEnd(servers, n)

\* The reports of the mount attempts made for an upstream.
ReportsOf(reports, upstream) ==
    {reports[i] : i \in {k \in DOMAIN reports : reports[k].server_name = upstream}}

\* C22: a mount whose handshake fails or exceeds the timeout is reported as
\* failed and exposes no tool of that upstream on any front-end; every
\* upstream is attempted once whatever happened to the others, and one whose
\* handshake succeeds is reported as mounted.
C22_FailedMountIsIsolated ==
    (probe.done /\ probe.output.op = "setup_all_servers") =>
        \A n \in DOMAIN probe.input.config.mcpServers :
            LET upstream == probe.input.upstreams[n]
                handshake_ok == upstream.answers /\ upstream.seconds < HandshakeTimeout
                reports == ReportsOf(probe.output.reports, n)
            IN /\ Cardinality(reports) = 1
               /\ \A r \in reports : r.success <=> handshake_ok
               /\ ~handshake_ok => FrontEndsOf(probe.output.servers, n) = {}

\* The first upstream hangs beyond the timeout, the second answers and is
\* mounted on a front-end.
C22_Witness ==
    /\ probe.done
    /\ probe.output.op = "setup_all_servers"
    /\ probe.input.upstreams[probe.input.order[1]].seconds > HandshakeTimeout
    /\ MountOutcome(probe.input.upstreams[probe.input.order[2]]) = "mounted"
    /\ FrontEndsOf(probe.output.servers, probe.input.order[1]) = {}
    /\ FrontEndsOf(probe.output.servers, probe.input.order[2]) # {}

\* ---------------------------------------------------------------------------
\* MCPGovernanceApp.run, run_servers, stop_servers
\* ---------------------------------------------------------------------------

\* Calls in flight per front-end.
MaxInFlight == 1

others_of_supervisor == <<interceptor, probe, loader, coroutines>>

\* run_servers up to asyncio.wait: one task per front-end is created.
RunServers ==
    /\ app_pc = "setup_done"
    /\ is_running' = TRUE
    /\ app_pc' = "waiting"
    /\ UNCHANGED <<front_end, shutdown_event, shutdown_requested, signal_task, stop_servers_invoked>>
    /\ UNCHANGED others_of_supervisor

\* _run_single_server: the task starts and server.run_async listens.
Start(f) ==
    /\ app_pc \in {"waiting", "shutdown", "sleeping"}
    /\ front_end[f].state = "init"
    /\ front_end' = [front_end EXCEPT ![f].state = "listening"]
    /\ UNCHANGED <<shutdown_event, is_running, shutdown_requested, app_pc, signal_task, stop_servers_invoked>>
    /\ UNCHANGED others_of_supervisor

\* A listening front-end accepts a call from a client.
Accept(f) ==
    /\ front_end[f].state = "listening"
    /\ front_end[f].in_flight < MaxInFlight
    /\ front_end' = [front_end EXCEPT
            ![f].in_flight = @ + 1,
            ![f].accepted_after_shutdown = @ \/ shutdown_event]
    /\ UNCHANGED <<shutdown_event, is_running, shutdown_requested, app_pc, signal_task, stop_servers_invoked>>
    /\ UNCHANGED others_of_supervisor

\* A call in flight completes.
Complete(f) ==
    /\ front_end[f].state = "listening"
    /\ front_end[f].in_flight > 0
    /\ front_end' = [front_end EXCEPT ![f].in_flight = @ - 1]
    /\ UNCHANGED <<shutdown_event, is_running, shutdown_requested, app_pc, signal_task, stop_servers_invoked>>
    /\ UNCHANGED others_of_supervisor

\* server.run_async raises: _run_single_server logs and re-raises, the task
\* is done with the exception.
Fail(f) ==
    /\ front_end[f].state = "listening"
    /\ front_end' = [front_end EXCEPT ![f].state = "stopped", ![f].failed = TRUE, ![f].in_flight = 0]
    /\ UNCHANGED <<shutdown_event, is_running, shutdown_requested, app_pc, signal_task, stop_servers_invoked>>
    /\ UNCHANGED others_of_supervisor

\* A variant of the wait that returns only when everything has completed.
FirstCompleted_AllCompleted ==
    /\ shutdown_event
    /\ \A f \in FrontEnds : front_end[f].state = "stopped"

\* asyncio.wait([shutdown_event.wait(), *tasks], return_when=FIRST_COMPLETED)
FirstCompleted ==
    \/ shutdown_event
    \/ \E f \in FrontEnds : front_end[f].state = "stopped"

\* asyncio.wait returns; run_servers' finally clears is_running and
\* run_servers returns into run's finally.
WaitReturns ==
    /\ app_pc = "waiting"
    /\ FirstCompleted
    /\ is_running' = FALSE
    /\ app_pc' = "shutdown"
    /\ UNCHANGED <<front_end, shutdown_event, shutdown_requested, signal_task, stop_servers_invoked>>
    /\ UNCHANGED others_of_supervisor

\* run's finally: shutdown() calls stop_servers, up to its sleep.
StopServers ==
    /\ app_pc = "shutdown"
    /\ is_running' = FALSE
    /\ shutdown_event' = TRUE
    /\ stop_servers_invoked' = TRUE
    /\ app_pc' = "sleeping"
    /\ UNCHANGED <<front_end, shutdown_requested, signal_task>>
    /\ UNCHANGED others_of_supervisor

\* asyncio.sleep(2) of stop_servers ends; run returns.
SleepDone ==
    /\ app_pc = "sleeping"
    /\ app_pc' = "returned"
    /\ UNCHANGED <<front_end, shutdown_event, is_running, shutdown_requested, signal_task, stop_servers_invoked>>
    /\ UNCHANGED others_of_supervisor

\* asyncio.run(app.run()) ends: every task still pending is cancelled.
Teardown ==
    /\ app_pc = "returned"
    /\ app_pc' = "closed"
    /\ front_end' = [f \in FrontEnds |->
            [front_end[f] EXCEPT !.state = "stopped", !.in_flight = 0]]
    /\ signal_task' = IF signal_task \in {"created", "sleeping"} THEN "cancelled" ELSE signal_task
    /\ UNCHANGED <<shutdown_event, is_running, shutdown_requested, stop_servers_invoked>>
    /\ UNCHANGED others_of_supervisor

\* SIGINT or SIGTERM: signal_handler sets shutdown_requested and creates a
\* task for shutdown().
Signal ==
    /\ app_pc \in {"setting_up", "waiting", "shutdown", "sleeping"}
    /\ signal_task = "none"
    /\ shutdown_requested' = TRUE
    /\ signal_task' = "created"
    /\ UNCHANGED <<front_end, shutdown_event, is_running, app_pc, stop_servers_invoked>>
    /\ UNCHANGED others_of_supervisor

\* The signal's shutdown() task: stop_servers up to its sleep.
SignalStopServers ==
    /\ signal_task = "created"
    /\ is_running' = FALSE
    /\ shutdown_event' = TRUE
    /\ signal_task' = "sleeping"
    /\ UNCHANGED <<front_end, shutdown_requested, app_pc, stop_servers_invoked>>
    /\ UNCHANGED others_of_supervisor

\* The signal's shutdown() task ends.
SignalSleepDone ==
    /\ signal_task = "sleeping"
    /\ signal_task' = "done"
    /\ UNCHANGED <<front_end, shutdown_event, is_running, shutdown_requested, app_pc, stop_servers_invoked>>
    /\ UNCHANGED others_of_supervisor

AppStep ==
    \/ RunServers
    \/ WaitReturns
    \/ StopServers
    \/ SleepDone
    \/ Teardown

NextSupervisor ==
    \/ AppStep
    \/ \E f \in FrontEnds : Start(f)
    \/ \E f \in FrontEnds : Accept(f)
    \/ \E f \in FrontEnds : Complete(f)
    \/ \E f \in FrontEnds : Fail(f)
    \/ Signal
    \/ SignalStopServers
    \/ SignalSleepDone

InitSupervisor ==
    /\ probe = NoProbe
    /\ InterceptorInit
    /\ LoaderInit
    /\ SupervisorInit
    /\ CoroutinesInit

SpecSupervisor == InitSupervisor /\ [][NextSupervisor]_vars

\* The event loop runs every ready coroutine: run's own steps are taken.
SpecSupervisorFair == SpecSupervisor /\ WF_vars(AppStep)

\* Where a front-end is in init -> listening -> draining -> stopped: it is
\* draining while its task runs with the shutdown event set.
Phase(f) ==
    CASE front_end[f].state = "init" -> 0
      [] front_end[f].state = "listening" /\ ~shutdown_event -> 1
      [] front_end[f].state = "listening" /\ shutdown_event -> 2
      [] front_end[f].state = "stopped" -> 3

\* C23: a front-end that is draining or stopped has accepted no new call
\* since the shutdown signal set the shutdown event.
C23_NoNewCallsAfterShutdown ==
    \A f \in FrontEnds :
        Phase(f) \in {2, 3} => ~front_end[f].accepted_after_shutdown

\* C24: once a front-end has terminated with a fatal error, run_servers
\* returns, stop_servers is invoked and every front-end stops.
C24_FatalErrorDrainsAll ==
    (\E f \in FrontEnds : front_end[f].failed)
        ~> (/\ stop_servers_invoked
            /\ app_pc = "closed"
            /\ \A f \in FrontEnds : front_end[f].state = "stopped")

\* One front-end failed, no signal came, and the other was stopped by the
\* drain.
C24_Witness ==
    /\ \E f \in FrontEnds : front_end[f].failed
    /\ \E f \in FrontEnds : ~front_end[f].failed
    /\ ~shutdown_requested
    /\ stop_servers_invoked
    /\ \A f \in FrontEnds : front_end[f].state = "stopped"

\* ---------------------------------------------------------------------------
\* UsageTracker.cleanup_stale_sessions
\* ---------------------------------------------------------------------------

\* Sample trackers: up to three active sessions, started at whole hours.
SessionIds == {"s1", "s2", "s3"}
StartTimes == 0..3
SweepTimes == {3, 4}
MaxDurations == {1, 2}

ActiveSessionSets ==
    UNION {[ids -> [start_time : StartTimes, status : {"started"}]] : ids \in SUBSET SessionIds}

\* mongodb_client.complete_usage_session(completion_data): the store takes
\* the completion document and does not raise, like the other store methods.
complete_usage_session(usage_sessions, completion_data) ==
    Append(usage_sessions, completion_data)

\* A variant of NotActive that takes every session id for an active one.
NotActive_Never(active_sessions, session_id) == FALSE

\* session_id not in self.active_sessions
NotActive(active_sessions, session_id) == session_id \notin DOMAIN active_sessions

\* complete_tracking(session_id, result, status, duration_ms, error_message)
complete_tracking(tracker, session_id, status, duration_ms, error_message) ==
    IF NotActive(tracker.active_sessions, session_id) THEN tracker
    ELSE [tracker EXCEPT
            !.usage_sessions = complete_usage_session(@,
                    [session_id |-> session_id, status |-> status,
                     duration_ms |-> duration_ms, error_message |-> error_message]),
            !.active_sessions = [k \in DOMAIN @ \ {session_id} |-> @[k]]]

\* A variant of the staleness test that also takes sessions of exactly the
\* maximum age.
IsStale_Inclusive(session_data, cutoff_time) == session_data.start_time <= cutoff_time

\* session_data["start_time"] < cutoff_time
IsStale(session_data, cutoff_time) == session_data.start_time < cutoff_time

\* The loop of cleanup_stale_sessions over list(self.active_sessions.items()).
RECURSIVE SweepLoop(_, _, _, _, _)
SweepLoop(tracker, snapshot, remaining, cutoff_time, stale_sessions) ==
    IF remaining = {} THEN [tracker |-> tracker, returned |-> Len(stale_sessions)]
    ELSE LET session_id == CHOOSE k \in remaining : TRUE
         IN IF IsStale(snapshot[session_id], cutoff_time)
            THEN SweepLoop(
                    complete_tracking(tracker, session_id, "timeout",
                        (tracker.now - snapshot[session_id].start_time) * 3600 * 1000,
                        "Session exceeded maximum duration"),
                    snapshot, remaining \ {session_id}, cutoff_time,
                    Append(stale_sessions, session_id))
            ELSE SweepLoop(tracker, snapshot, remaining \ {session_id}, cutoff_time,
                    stale_sessions)

\* cleanup_stale_sessions(max_duration_hours), times in hours.
cleanup_stale_sessions(tracker, max_duration_hours) ==
    SweepLoop(tracker, tracker.active_sessions, DOMAIN tracker.active_sessions,
        tracker.now - max_duration_hours, <<>>)

InitTracker ==
    /\ probe \in {[input |-> [tracker |-> [active_sessions |-> a, usage_sessions |-> <<>>, now |-> t],
                              max_duration_hours |-> m],
                   done |-> FALSE, output |-> <<>>] :
            a \in ActiveSessionSets, t \in SweepTimes, m \in MaxDurations}
    /\ InterceptorInit
    /\ LoaderInit
    /\ SupervisorInit
    /\ CoroutinesInit

\* cleanup_stale_sessions on its own.
CleanupStaleSessions ==
    /\ ~probe.done
    /\ probe' = [probe EXCEPT
            !.done = TRUE,
            !.output = cleanup_stale_sessions(probe.input.tracker, probe.input.max_duration_hours)]
    /\ UNCHANGED <<interceptor, loader, supervisor, coroutines>>

NextTracker == CleanupStaleSessions

SpecTracker == InitTracker /\ [][NextTracker]_vars

\* The active sessions that started more than max_duration_hours before now.
OlderThanMax(tracker, max_duration_hours) ==
    {k \in DOMAIN tracker.active_sessions :
        tracker.now - tracker.active_sessions[k].start_time > max_duration_hours}

C26_InvocationBeforeCompletion ==
    \A c \in Calls :
        /\ (\/ decision[c] # NoDecision
            \/ governance_log_writes[c] # <<>>
            \/ upstream_calls[c] > 0
            \/ pc[c] # "idle")
                => /\ tool_log_writes[c] # <<>>
                   /\ tool_log_writes[c][1].event_type = "tool_invocation"
        /\ \A i \in DOMAIN tool_log_writes[c] :
            tool_log_writes[c][i].event_type = "tool_completion" =>
                /\ i > 1
                /\ tool_log_writes[c][1].event_type = "tool_invocation"
                /\ outcome[c].kind # "pending"
        /\ pc[c] = "upstream" => Len(Completions(c)) = 0

\* A call that reached the upstream, got a result and has its invocation and
\* its completion recorded in that order.
C26_Witness ==
    \E c \in Calls :
        /\ pc[c] = "done"
        /\ upstream_calls[c] = 1
        /\ upstream_event[c].kind = "result"
        /\ Len(tool_log_writes[c]) = 2
        /\ tool_log_writes[c][1].event_type = "tool_invocation"
        /\ tool_log_writes[c][2].event_type = "tool_completion"

\* What the governance config of the probed call asks for.
ProbedAllowedHours ==
    IF "allowed_hours" \in DOMAIN probe.input.governance_config
    THEN probe.input.governance_config.allowed_hours ELSE 0..23
ProbedRateLimit ==
    IF "rate_limit" \in DOMAIN probe.input.governance_config
    THEN probe.input.governance_config.rate_limit ELSE 100

\* The probed call comes outside the allowed hours; the rate window of its
\* server is full (every sample entry is inside the window); its parameters
\* match a built-in pattern.
ProbedOutsideHours == probe.input.current_hour \notin ProbedAllowedHours
ProbedWindowFull ==
    Len(RequestsOf(probe.input.limiters, probe.input.server_name)) >= ProbedRateLimit
ProbedPatternHit == probe.input.parameters.text = ArgDrop.text

\* C27: the checks run in the order time window, rate limit, content
\* patterns, elevated scrutiny and the first denial is the result; a call
\* outside the allowed hours is denied with time_restriction whatever the
\* rate state and the inputs, and the rate limiters are left as they were.
C27_EvaluationOrder ==
    (probe.done /\ probe.input.fault = "none") =>
        LET violation == probe.output.result.policy_violation
        IN IF ProbedOutsideHours
           THEN /\ ~probe.output.result.allowed
                /\ violation = "time_restriction"
                /\ probe.output.rate_limiters = probe.input.limiters
           ELSE IF ProbedWindowFull
           THEN /\ violation = "rate_limit"
                /\ Len(RequestsOf(probe.output.rate_limiters, probe.input.server_name))
                        = Len(RequestsOf(probe.input.limiters, probe.input.server_name))
           ELSE /\ Len(RequestsOf(probe.output.rate_limiters, probe.input.server_name))
                        = Len(RequestsOf(probe.input.limiters, probe.input.server_name)) + 1
                /\ IF ProbedPatternHit
                   THEN violation = "security_pattern"
                   ELSE violation \in {""} \cup HighSecurityViolations

\* A call outside the allowed hours, on a full rate window, with parameters
\* matching a blocked pattern and a sensitive tool name: denied for the hour.
C27_Witness ==
    /\ probe.done
    /\ probe.input.fault = "none"
    /\ ProbedOutsideHours
    /\ ProbedWindowFull
    /\ ProbedPatternHit
    /\ probe.input.tool_name \in SensitiveTools
    /\ probe.output.result.policy_violation = "time_restriction"

\* ------------------------------------------ _check_rate_limit, concurrent calls
\* The interceptor's state other than the clock and the rate limiters.
interceptor_records == <<pc, call, decision, engine_exception, tool_log_writes, governance_log_writes, write_failed, upstream_calls, upstream_event, outcome, if_stored>>

\* A variant of RateAwaits in which the coroutine yields to the event loop
\* between the limit test and the append.
RateAwaits_AfterCheck == {"check"}

\* The statements of _check_rate_limit after which the coroutine awaits: the
\* body holds no await, so the event loop runs it from entry to return.
RateAwaits == {}

\* One statement of _check_rate_limit for task t: "init" reads the policy and
\* the clock and creates the limiter, "prune" drops the requests older than a
\* minute, "check" tests the limit, "append" records the request.
RateStatement(st, t, clock) ==
    LET k == st.task[t]
        s == k.server_name
        requests == RequestsOf(st.rate_limiters, s)
    IN IF k.pc = "init"
       THEN [rate_limiters |-> WithRequests(st.rate_limiters, s, requests),
             task |-> [st.task EXCEPT
                ![t].pc = "prune",
                ![t].current_time = clock,
                ![t].max_requests =
                    _get_server_policy(s, governance_configs[s]).max_requests_per_minute]]
       ELSE IF k.pc = "prune"
       THEN [rate_limiters |-> WithRequests(st.rate_limiters, s,
                                    CleanOldRequests(requests, k.current_time)),
             task |-> [st.task EXCEPT ![t].pc = "check"]]
       ELSE IF k.pc = "check"
       THEN IF LimitExceeded(requests, k.max_requests)
            THEN [rate_limiters |-> st.rate_limiters,
                  task |-> [st.task EXCEPT
                    ![t].pc = "done",
                    ![t].result =
                        Denied("Rate limit exceeded: " \o ToString(Len(requests)) \o "/"
                                   \o ToString(k.max_requests) \o " requests per minute",
                               "rate_limit")]]
            ELSE [rate_limiters |-> st.rate_limiters,
                  task |-> [st.task EXCEPT ![t].pc = "append"]]
       ELSE [rate_limiters |-> WithRequests(st.rate_limiters, s,
                                    Append(requests, k.current_time)),
             task |-> [st.task EXCEPT ![t].pc = "done", ![t].result = CheckPassed]]

\* The event loop runs task t until its next await or its return.
RECURSIVE RunToAwait(_, _, _)
RunToAwait(st, t, clock) ==
    LET statement == st.task[t].pc
        next == RateStatement(st, t, clock)
    IN IF next.task[t].pc = "done" \/ statement \in RateAwaits
       THEN next
       ELSE RunToAwait(next, t, clock)

\* A call for some server reaches _check_rate_limit: its task is ready to run.
RateArrive(t) ==
    /\ rate_task[t].pc = "idle"
    /\ IF t = 1 THEN TRUE ELSE rate_task[t - 1].pc # "idle"
    /\ \E s \in Servers :
        rate_task' = [rate_task EXCEPT ![t].pc = "init", ![t].server_name = s]
    /\ UNCHANGED <<now, rate_limiters, interceptor_records, probe, loader, supervisor, audit_task, usage_tracker, tracker_task>>

\* The event loop picks a ready task and runs it to its next await.
RateRun(t) ==
    /\ rate_task[t].pc \notin {"idle", "done"}
    /\ LET st == RunToAwait([rate_limiters |-> rate_limiters, task |-> rate_task], t, now)
       IN /\ rate_limiters' = st.rate_limiters
          /\ rate_task' = st.task
    /\ UNCHANGED <<now, interceptor_records, probe, loader, supervisor, audit_task, usage_tracker, tracker_task>>

NextRate ==
    \/ \E t \in RateTasks : RateArrive(t)
    \/ \E t \in RateTasks : RateRun(t)
    \/ Tick

InitRate ==
    /\ probe = NoProbe
    /\ InterceptorInit
    /\ LoaderInit
    /\ SupervisorInit
    /\ CoroutinesInit

SpecRate == InitRate /\ [][NextRate]_vars

\* The calls _check_rate_limit admitted for server s with a request time in
\* the half-open interval (from, to].
AdmittedIn(s, from, to) ==
    {t \in RateTasks :
        /\ rate_task[t].pc = "done"
        /\ rate_task[t].server_name = s
        /\ rate_task[t].result.allowed
        /\ from < rate_task[t].current_time
        /\ rate_task[t].current_time <= to}

\* C28: under every interleaving of the calls for one server, the calls
\* admitted within any one-minute window are at most the server's rate limit,
\* and every admission of the last minute has its entry in the server's
\* request list (none is lost, none is counted twice).
C28_RateStateLinearizable ==
    \A s \in Servers :
        LET max_requests ==
                _get_server_policy(s, governance_configs[s]).max_requests_per_minute
            recent == SelectSeq(RequestsOf(rate_limiters, s),
                                LAMBDA req_time : req_time > now - Window)
        IN /\ \A t \in AdmittedIn(s, now - MaxTime - Window, now) :
                Cardinality(AdmittedIn(s, rate_task[t].current_time - Window,
                                       rate_task[t].current_time)) <= max_requests
           /\ Len(recent) = Cardinality(AdmittedIn(s, now - Window, now))

\* Three calls for db-srv (rate limit 2) ran at the same instant: two were
\* admitted, the third was denied.
C28_Witness ==
    /\ \A t \in RateTasks :
        /\ rate_task[t].pc = "done"
        /\ rate_task[t].server_name = "db-srv"
        /\ rate_task[t].current_time = now
    /\ Cardinality(AdmittedIn("db-srv", now - Window, now)) = 2
    /\ \E t \in RateTasks : rate_task[t].result.policy_violation = "rate_limit"

\* ------------------------------------------- on_call_tool and its audit writes
\* The rest of the state while the audit writes of the calls are followed.
others_of_audit == <<interceptor, probe, loader, supervisor, rate_task, usage_tracker, tracker_task>>

\* collection.insert_one is a blocking call made on the event loop's thread,
\* and store_tool_log returns into its caller without a suspension: while
\* one call is inside either, no other task runs.
LoopRuns(c) ==
    \A d \in AuditCalls \ {c} : audit_task[d].pc \notin {"insert_one", "returned"}

\* on_call_tool, lines 28-36, through _log_tool_invocation and store_tool_log
\* to collection.insert_one: the invocation record is handed to the store.
AuditInvoke(c) ==
    /\ LoopRuns(c)
    /\ audit_task[c].pc = "idle"
    /\ IF c = 1 THEN TRUE ELSE audit_task[c - 1].pc # "idle"
    /\ audit_task' = [audit_task EXCEPT ![c].pc = "insert_one", ![c].awaiting = "invocation"]
    /\ UNCHANGED others_of_audit

\* The store finishes the write: insert_one returns its acknowledgement or
\* raises, and store_tool_log returns to its awaiting caller.
AuditInsertReturns(c) ==
    /\ audit_task[c].pc = "insert_one"
    /\ \E ok \in BOOLEAN :
        audit_task' = [audit_task EXCEPT
            ![c].pc = "returned",
            ![c].stored = IF ok THEN @ + 1 ELSE @]
    /\ UNCHANGED others_of_audit

\* on_call_tool awaits _log_tool_invocation (line 34), which awaits
\* store_tool_log (line 160): the call goes on once the write has returned.
InvocationAwaited(k) == k.pc = "returned"

\* on_call_tool, lines 39-56: the governance check, then call_next for an
\* allowed call and the denied completion for a denied one.
AuditEvaluate(c) ==
    /\ audit_task[c].awaiting = "invocation"
    /\ InvocationAwaited(audit_task[c])
    /\ LoopRuns(c)
    /\ \E allowed \in BOOLEAN :
        audit_task' = [audit_task EXCEPT
            ![c].allowed = allowed,
            ![c].pc = IF allowed THEN "upstream" ELSE "insert_one",
            ![c].awaiting = IF allowed THEN "" ELSE "denied_completion"]
    /\ UNCHANGED others_of_audit

\* on_call_tool, lines 56-74: call_next returns or raises and the completion
\* record is handed to the store.
AuditResolve(c) ==
    /\ LoopRuns(c)
    /\ audit_task[c].pc = "upstream"
    /\ \E status \in {"completion", "error_completion"} :
        audit_task' = [audit_task EXCEPT ![c].pc = "insert_one", ![c].awaiting = status]
    /\ UNCHANGED others_of_audit

\* on_call_tool after a completion write returned: the denied branch raises
\* into the except block, which writes the error completion; the other
\* branches return or re-raise.
AuditFinish(c) ==
    /\ LoopRuns(c)
    /\ audit_task[c].pc = "returned"
    /\ audit_task[c].awaiting \in {"denied_completion", "completion", "error_completion"}
    /\ audit_task' = [audit_task EXCEPT
        ![c].pc = IF audit_task[c].awaiting = "denied_completion"
                  THEN "insert_one" ELSE "done",
        ![c].awaiting = IF audit_task[c].awaiting = "denied_completion"
                        THEN "error_completion" ELSE @]
    /\ UNCHANGED others_of_audit

NextAudit ==
    \/ \E c \in AuditCalls : AuditInvoke(c)
    \/ \E c \in AuditCalls : AuditInsertReturns(c)
    \/ \E c \in AuditCalls : AuditEvaluate(c)
    \/ \E c \in AuditCalls : AuditResolve(c)
    \/ \E c \in AuditCalls : AuditFinish(c)

InitAudit ==
    /\ probe = NoProbe
    /\ InterceptorInit
    /\ LoaderInit
    /\ SupervisorInit
    /\ CoroutinesInit

SpecAudit == InitAudit /\ [][NextAudit]_vars

\* C29: a call whose invocation record was handed to the store can go on to
\* policy evaluation and upstream dispatch whether or not the store has
\* finished that write.
C29_AuditOffCriticalPath ==
    \A c \in AuditCalls :
        (audit_task[c].awaiting = "invocation"
            /\ audit_task[c].pc \in {"insert_one", "returned"})
        => ENABLED AuditEvaluate(c)

\* ------------------------------------------------- _make_json_serializable
\* The default of the max_depth parameter.
DefaultMaxDepth == 5
\* obj[:100]: the items of a list that are walked.
ListLimit == 100
\* list(obj.items())[:50]: the entries of a dict that are walked.
DictLimit == 50

\* Python values: a scalar (None, bool, int, float, str), a list of values, a
\* dict as its entries in insertion order.
Scalar(type, v) == [kind |-> "scalar", type |-> type, v |-> v]
List(items) == [kind |-> "list", items |-> items]
Dict(entries) == [kind |-> "dict", entries |-> entries]
Entry(key, value) == [key |-> key, value |-> value]

\* str(type(obj)).
TypeName(obj) ==
    IF obj.kind = "scalar" THEN "<class '" \o obj.type \o "'>"
    ELSE "<class '" \o obj.kind \o "'>"

\* The keys of a dict value.
Keys(obj) == {obj.entries[i].key : i \in DOMAIN obj.entries}

\* The first n elements of a sequence: seq[:n].
Slice(seq, n) == SubSeq(seq, 1, IF Len(seq) < n THEN Len(seq) ELSE n)

\* _make_json_serializable on scalars, lists and dicts: the depth stub at
\* max_depth 0, scalars as they are, the first 100 items of a list and the
\* first 50 entries of a dict walked with max_depth - 1.
RECURSIVE _make_json_serializable(_, _)
_make_json_serializable(obj, max_depth) ==
    IF max_depth <= 0
    THEN Dict(<<Entry("error", Scalar("str", 0)), Entry("type", Scalar("str", 0))>>)
    ELSE IF obj.kind = "scalar" THEN obj
    ELSE IF obj.kind = "list"
    THEN LET walked == Slice(obj.items, ListLimit)
         IN List([i \in DOMAIN walked |-> _make_json_serializable(walked[i], max_depth - 1)])
    ELSE LET walked == Slice(obj.entries, DictLimit)
         IN Dict([i \in DOMAIN walked |->
                    Entry(walked[i].key,
                          _make_json_serializable(walked[i].value, max_depth - 1))])

\* Sample leaves: a scalar, lists around the item limit, dicts around the
\* entry limit.
ListLengths == {0, 99, 100, 101, 102}
DictLengths == {49, 50, 51}
Leaves ==
    {Scalar("int", 7)}
    \cup {List([i \in 1..n |-> Scalar("int", i)]) : n \in ListLengths}
    \cup {Dict([i \in 1..n |-> Entry(ToString(i), Scalar("int", i))]) : n \in DictLengths}

\* A value wrapped in depth containers of one kind.
RECURSIVE Nest(_, _, _)
Nest(kind, depth, leaf) ==
    IF depth = 0 THEN leaf
    ELSE IF kind = "list" THEN List(<<Nest(kind, depth - 1, leaf)>>)
    ELSE Dict(<<Entry("k", Nest(kind, depth - 1, leaf))>>)

\* The sample values.
SampleValues ==
    {Nest(kind, depth, leaf) : kind \in {"list", "dict"}, depth \in 0..MaxNesting,
                               leaf \in Leaves}

InitSerialize ==
    /\ probe \in {[input |-> v, done |-> FALSE, output |-> <<>>] : v \in SampleValues}
    /\ InterceptorInit
    /\ LoaderInit
    /\ SupervisorInit
    /\ CoroutinesInit

\* _make_json_serializable called as _serialize_tool_outputs calls it, with
\* the default max_depth.
MakeJsonSerializable ==
    /\ ~probe.done
    /\ probe' = [probe EXCEPT
            !.done = TRUE,
            !.output = _make_json_serializable(probe.input, DefaultMaxDepth)]
    /\ UNCHANGED <<interceptor, loader, supervisor, coroutines>>

NextSerialize == MakeJsonSerializable

SpecSerialize == InitSerialize /\ [][NextSerialize]_vars

\* A {truncated, type} stub.
IsTruncationStub(out) ==
    /\ out.kind = "dict"
    /\ Keys(out) = {"truncated", "type"}

\* out is obj walked from nesting level `level` (the root is level 1): values
\* below level 5 are stubs, scalars are themselves, and a list or dict keeps
\* its first 100 items or 50 entries walked and has a stub for what lies
\* beyond them.
RECURSIVE WalkedWithStubs(_, _, _)
WalkedWithStubs(obj, out, level) ==
    IF level > DefaultMaxDepth THEN IsTruncationStub(out)
    ELSE IF obj.kind = "scalar" THEN out = obj
    ELSE IF obj.kind = "list"
    THEN /\ out.kind = "list"
         /\ Len(out.items) >= Len(Slice(obj.items, ListLimit))
         /\ \A i \in DOMAIN out.items :
                IF i <= ListLimit
                THEN /\ i <= Len(obj.items)
                     /\ WalkedWithStubs(obj.items[i], out.items[i], level + 1)
                ELSE IsTruncationStub(out.items[i])
         /\ Len(obj.items) > ListLimit => Len(out.items) > ListLimit
    ELSE /\ out.kind = "dict"
         /\ Len(out.entries) >= Len(Slice(obj.entries, DictLimit))
         /\ \A i \in DOMAIN out.entries :
                IF i <= DictLimit
                THEN /\ i <= Len(obj.entries)
                     /\ out.entries[i].key = obj.entries[i].key
                     /\ WalkedWithStubs(obj.entries[i].value, out.entries[i].value, level + 1)
                ELSE IsTruncationStub(out.entries[i].value)
         /\ Len(obj.entries) > DictLimit => Len(out.entries) > DictLimit

\* C30: the serializer emits a value down to nesting level 5, up to 100 items
\* of each list and 50 entries of each dict, and puts a {truncated, type} stub
\* in the place of every value beyond one of these limits: none is emitted,
\* none is left out without a trace.
C30_BoundedSerialization ==
    probe.done => WalkedWithStubs(probe.input, probe.output, 1)

\* ------------------------------------------------------- MCPGovernanceApp.run
\* What run has done before run_servers: whether self.manager was assigned,
\* and how setup_all_servers ended.
NotSetUp == [input |-> <<>>, done |-> FALSE, output |-> [manager |-> FALSE, setup |-> "pending"]]

\* A variant of AfterSetupRaises without the finally clause: the exception
\* leaves run at once.
AfterSetupRaises_NoFinally == "returned"

\* Where run goes when setup_all_servers raises: the except clause, then the
\* finally clause with its call of shutdown(); run_servers is skipped.
AfterSetupRaises == "failed_shutdown"

\* run, lines 67-71: the signal handlers are installed and the manager is
\* constructed; the constructor raises when no MongoDB URI is configured or
\* the store cannot be reached, and self.manager stays None.
Construct ==
    /\ app_pc = "start"
    /\ \E ok \in BOOLEAN :
        /\ probe' = [probe EXCEPT !.output.manager = ok]
        /\ app_pc' = IF ok THEN "setting_up" ELSE "finally_no_manager"
    /\ UNCHANGED <<front_end, shutdown_event, is_running, shutdown_requested, signal_task, stop_servers_invoked>>
    /\ UNCHANGED <<interceptor, loader, coroutines>>

\* run, line 74: setup_all_servers returns.
SetupReturns ==
    /\ app_pc = "setting_up"
    /\ probe' = [probe EXCEPT !.output.setup = "returned", !.done = TRUE]
    /\ app_pc' = "setup_done"
    /\ UNCHANGED <<front_end, shutdown_event, is_running, shutdown_requested, signal_task, stop_servers_invoked>>
    /\ UNCHANGED <<interceptor, loader, coroutines>>

\* run, lines 74 and 83-87: setup_all_servers raises.
SetupRaises ==
    /\ app_pc = "setting_up"
    /\ probe' = [probe EXCEPT !.output.setup = "raised", !.done = TRUE]
    /\ app_pc' = AfterSetupRaises
    /\ UNCHANGED <<front_end, shutdown_event, is_running, shutdown_requested, signal_task, stop_servers_invoked>>
    /\ UNCHANGED <<interceptor, loader, coroutines>>

\* run's finally after the constructor raised: shutdown() finds self.manager
\* None and calls nothing.
ShutdownWithoutManager ==
    /\ app_pc = "finally_no_manager"
    /\ app_pc' = "returned"
    /\ UNCHANGED <<front_end, shutdown_event, is_running, shutdown_requested, signal_task, stop_servers_invoked>>
    /\ UNCHANGED others_of_supervisor

\* run's finally after setup_all_servers raised: shutdown() calls
\* stop_servers, up to its sleep; no serving task exists.
FailedStopServers ==
    /\ app_pc = "failed_shutdown"
    /\ is_running' = FALSE
    /\ shutdown_event' = TRUE
    /\ stop_servers_invoked' = TRUE
    /\ app_pc' = "failed_sleeping"
    /\ UNCHANGED <<front_end, shutdown_requested, signal_task>>
    /\ UNCHANGED others_of_supervisor

\* asyncio.sleep(2) of that stop_servers ends; run returns.
FailedSleepDone ==
    /\ app_pc = "failed_sleeping"
    /\ app_pc' = "returned"
    /\ UNCHANGED <<front_end, shutdown_event, is_running, shutdown_requested, signal_task, stop_servers_invoked>>
    /\ UNCHANGED others_of_supervisor

NextApp ==
    \/ Construct
    \/ SetupReturns
    \/ SetupRaises
    \/ ShutdownWithoutManager
    \/ FailedStopServers
    \/ FailedSleepDone
    \/ NextSupervisor

\* asyncio.run(app.run()) begins: nothing is constructed yet.
InitApp ==
    /\ probe = NotSetUp
    /\ InterceptorInit
    /\ LoaderInit
    /\ CoroutinesInit
    /\ front_end = [f \in FrontEnds |->
            [state |-> "init", in_flight |-> 0, failed |-> FALSE, accepted_after_shutdown |-> FALSE]]
    /\ shutdown_event = FALSE
    /\ is_running = FALSE
    /\ shutdown_requested = FALSE
    /\ app_pc = "start"
    /\ signal_task = "none"
    /\ stop_servers_invoked = FALSE

SpecApp == InitApp /\ [][NextApp]_vars

\* C31: run_servers runs (is_running set, a serving task waiting or listening)
\* only after setup_all_servers has returned, never after it raised; and once
\* run has returned with a manager constructed, whether setup raised, the
\* servers ended or a signal came, its finally has called stop_servers.
C31_SetupBeforeRunAndAlwaysShutdown ==
    /\ (is_running \/ app_pc = "waiting"
            \/ \E f \in FrontEnds : front_end[f].state = "listening")
        => probe.output.setup = "returned"
    /\ (app_pc \in {"returned", "closed"} /\ probe.output.manager)
        => stop_servers_invoked

\* setup_all_servers raised and run has returned through its finally.
C31_Witness ==
    /\ probe.output.setup = "raised"
    /\ app_pc = "closed"
    /\ stop_servers_invoked
    /\ \A f \in FrontEnds : ~front_end[f].failed

\* ------------------------------------- UsageTracker, concurrent callers
\* The rest of the state while the tracker's calls are followed.
others_of_tracker == <<interceptor, probe, loader, supervisor, rate_task, audit_task>>

\* mongodb_client.store_usage_session(session_data): the store takes the
\* session document.
store_usage_session(usage_sessions, session_data) == Append(usage_sessions, session_data)

\* Whether an await on a store write hands control to the event loop before
\* it returns: the store method decides, and a caller can count on neither.
StoreSuspends == BOOLEAN

\* The status a caller passes to complete_tracking; cleanup_stale_sessions
\* passes "timeout".
CompletionStatuses == {"success", "timeout"}

\* start_tracking: a fresh session id is put into active_sessions and its
\* document is handed to the store.
StartTracking(t) ==
    /\ tracker_task[t].pc = "idle"
    /\ IF t = 1 THEN TRUE ELSE tracker_task[t - 1].pc # "idle"
    /\ \E session_id \in SessionIds :
        /\ session_id \notin DOMAIN usage_tracker.active_sessions
        /\ \A i \in DOMAIN usage_tracker.usage_sessions :
                usage_tracker.usage_sessions[i].session_id # session_id
        /\ usage_tracker' =
            [active_sessions |->
                [k \in DOMAIN usage_tracker.active_sessions \cup {session_id} |->
                    IF k = session_id THEN [start_time |-> 0, status |-> "started"]
                    ELSE usage_tracker.active_sessions[k]],
             usage_sessions |->
                store_usage_session(usage_tracker.usage_sessions,
                    [session_id |-> session_id, status |-> "started"])]
        /\ tracker_task' = [tracker_task EXCEPT ![t] =
                [pc |-> "done", op |-> "start", session_id |-> session_id,
                 status |-> "started", result |-> "started"]]
    /\ UNCHANGED others_of_tracker

\* complete_tracking up to its await on the store write: an id that is not
\* active returns at once; otherwise the completion is handed to the store
\* and, when the await does not suspend, the session is deleted in the same
\* run of the event loop.
CompleteTracking(t) ==
    /\ tracker_task[t].pc = "idle"
    /\ IF t = 1 THEN TRUE ELSE tracker_task[t - 1].pc # "idle"
    /\ \E session_id \in SessionIds, status \in CompletionStatuses, suspends \in StoreSuspends :
        LET called == [pc |-> "done", op |-> "complete", session_id |-> session_id,
                       status |-> status, result |-> "completed"]
        IN IF NotActive(usage_tracker.active_sessions, session_id)
           THEN /\ tracker_task' = [tracker_task EXCEPT ![t] =
                        [called EXCEPT !.result = "not_found"]]
                /\ UNCHANGED usage_tracker
           ELSE IF suspends
           THEN /\ tracker_task' = [tracker_task EXCEPT ![t] =
                        [called EXCEPT !.pc = "awaiting", !.result = ""]]
                /\ UNCHANGED usage_tracker
           ELSE /\ tracker_task' = [tracker_task EXCEPT ![t] = called]
                /\ usage_tracker' = complete_tracking(usage_tracker, session_id, status, 0, "")
    /\ UNCHANGED others_of_tracker

\* complete_tracking after its await: the store has taken the completion,
\* then del self.active_sessions[session_id], a KeyError when the id is gone.
CompleteResume(t) ==
    /\ tracker_task[t].pc = "awaiting"
    /\ LET session_id == tracker_task[t].session_id
           written == complete_usage_session(usage_tracker.usage_sessions,
                        [session_id |-> session_id, status |-> tracker_task[t].status,
                         duration_ms |-> 0, error_message |-> ""])
       IN IF session_id \in DOMAIN usage_tracker.active_sessions
          THEN /\ usage_tracker' =
                    [active_sessions |->
                        [k \in DOMAIN usage_tracker.active_sessions \ {session_id} |->
                            usage_tracker.active_sessions[k]],
                     usage_sessions |-> written]
               /\ tracker_task' = [tracker_task EXCEPT
                    ![t].pc = "done", ![t].result = "completed"]
          ELSE /\ usage_tracker' = [usage_tracker EXCEPT !.usage_sessions = written]
               /\ tracker_task' = [tracker_task EXCEPT
                    ![t].pc = "done", ![t].result = "raised"]
    /\ UNCHANGED others_of_tracker

NextSessions ==
    \/ \E t \in TrackerTasks : StartTracking(t)
    \/ \E t \in TrackerTasks : CompleteTracking(t)
    \/ \E t \in TrackerTasks : CompleteResume(t)

InitSessions ==
    /\ probe = NoProbe
    /\ InterceptorInit
    /\ LoaderInit
    /\ SupervisorInit
    /\ CoroutinesInit

SpecSessions == InitSessions /\ [][NextSessions]_vars

\* start_tracking has returned this id.
Started(session_id) ==
    \E t \in TrackerTasks :
        /\ tracker_task[t].op = "start"
        /\ tracker_task[t].session_id = session_id

\* A complete_tracking call for this id has run to its end.
Completed(session_id) ==
    \E t \in TrackerTasks :
        /\ tracker_task[t].op = "complete"
        /\ tracker_task[t].session_id = session_id
        /\ tracker_task[t].result = "completed"

\* The completion documents the store took for this id.
CompletionsOf(session_id) ==
    SelectSeq(usage_tracker.usage_sessions,
              LAMBDA d : d.session_id = session_id /\ d.status # "started")

\* C32: after every step, a session id is in active_sessions exactly when
\* start_tracking has returned it and no complete_tracking for it has run to
\* its end; and a step that calls complete_tracking for an id that is not
\* active leaves active_sessions and the store as they were.
C32_SessionLifecycle ==
    [][/\ \A session_id \in SessionIds :
            (session_id \in DOMAIN usage_tracker'.active_sessions)
                <=> (Started(session_id)' /\ ~Completed(session_id)')
       /\ \A t \in TrackerTasks :
            (/\ tracker_task[t].pc = "idle"
             /\ tracker_task'[t].op = "complete"
             /\ tracker_task'[t].session_id \notin DOMAIN usage_tracker.active_sessions)
            => usage_tracker' = usage_tracker]_vars

\* A session was started and completed, and complete_tracking was called
\* once more for it.
C32_Witness ==
    \E a, b \in TrackerTasks :
        /\ tracker_task[a].result = "completed"
        /\ tracker_task[b].result = "not_found"
        /\ tracker_task[b].session_id = tracker_task[a].session_id
        /\ usage_tracker.active_sessions = <<>>

\* C37: the store holds at most one completion for any session and no
\* complete_tracking call has raised, whatever the interleaving of the calls.
C37_SingleCompletion ==
    /\ \A session_id \in SessionIds : Len(CompletionsOf(session_id)) <= 1
    /\ \A t \in TrackerTasks : tracker_task[t].result # "raised"

\* ------------------------------------------------ load_config and its history
\* C33: two load_config calls that found the file in the same condition with
\* the same content returned equal plans, whatever was loaded before either.
C33_PlanDependsOnFileOnly ==
    \A i, j \in DOMAIN loads :
        loads[i].config_file = loads[j].config_file
            => loads[i].plan = loads[j].plan

\* --------------------------------------------- a call without a stored config
\* C34: a call whose governance config could not be read (the interceptor
\* passes the empty config) is not denied for that: without an engine fault
\* it passes the time check at any hour and the rate check below 100 requests
\* a minute, is not put under elevated scrutiny, and an allowed result names
\* the built-in policy (100 a minute, all hours, high security off).
C34_MissingConfigMeansDefaultPolicy ==
    (/\ probe.done
     /\ probe.input.governance_config = _get_governance_config(probe.input.server_name, FALSE)
     /\ probe.input.fault = "none")
    => LET result == probe.output.result
       IN /\ result.policy_violation \in {"", "security_pattern"}
          /\ Len(RequestsOf(probe.output.rate_limiters, probe.input.server_name))
                = Len(RequestsOf(probe.input.limiters, probe.input.server_name)) + 1
          /\ ~ProbedPatternHit => result.allowed
          /\ result.allowed =>
                /\ result.policy_applied.max_requests_per_minute = 100
                /\ result.policy_applied.allowed_hours = 0..23
                /\ result.policy_applied.high_security_mode = FALSE

\* A call without a stored config, at hour 2, for a sensitive tool name and
\* with two requests already in the window, was allowed.
C34_Witness ==
    /\ probe.done
    /\ probe.input.governance_config = <<>>
    /\ probe.input.fault = "none"
    /\ probe.input.current_hour = 2
    /\ probe.input.tool_name = "Delete_User"
    /\ Len(RequestsOf(probe.input.limiters, probe.input.server_name)) = 2
    /\ probe.output.result.allowed

\* ------------------------------------------ one GovernanceEngine, call after call
\* The engine's security_policies and the calls made to it so far.
NewEngine == [security_policies |-> [default |-> DefaultPolicy], log |-> <<>>]

\* The clock advances by half a window between calls.
EngineTickSteps == {30}

\* Sample policy_updates of update_server_policy.
PolicyUpdates ==
    {[max_requests_per_minute |-> 50, high_security_mode |-> TRUE],
     [max_requests_per_minute |-> 1]}

\* update_server_policy: the server's entry starts as a copy of the default
\* policy and takes the updates.
update_server_policy(security_policies, server_name, policy_updates) ==
    LET entry == IF server_name \in DOMAIN security_policies
                 THEN security_policies[server_name] ELSE security_policies["default"]
    IN [s \in DOMAIN security_policies \cup {server_name} |->
            IF s = server_name THEN Update(entry, policy_updates)
            ELSE security_policies[s]]

\* What the log keeps of a call: the requests of the server before and after
\* it, the result, and the server's entry in security_policies at the time.
Logged(op, server_name, hour, before, after, result, stored) ==
    [op |-> op, server_name |-> server_name, time |-> now, hour |-> hour,
     before |-> before, after |-> after,
     allowed |-> result.allowed, policy_violation |-> result.policy_violation,
     policy_applied |-> result.policy_applied, stored |-> stored]

\* check_governance for a sample request, with the stored config of its server.
EngineCheck ==
    /\ Len(probe.log) < MaxEngineCalls
    /\ \E rq \in Requests, hour \in HourSamples :
        LET s == rq.server_name
            g == check_governance(s, rq.tool_name, rq.arguments,
                    _get_governance_config(s, TRUE), rate_limiters, hour, now, "none", TRUE)
        IN /\ rate_limiters' = g.rate_limiters
           /\ probe' = [probe EXCEPT !.log = Append(@,
                    Logged("check", s, hour, RequestsOf(rate_limiters, s),
                           RequestsOf(g.rate_limiters, s), g.result,
                           Get(probe.security_policies, s, NoPolicy)))]
    /\ UNCHANGED <<now, interceptor_records, loader, supervisor, coroutines>>

\* update_server_policy for a server.
UpdateServerPolicy ==
    /\ Len(probe.log) < MaxEngineCalls
    /\ \E s \in Servers, u \in PolicyUpdates :
        LET updated == update_server_policy(probe.security_policies, s, u)
        IN probe' = [security_policies |-> updated,
                     log |-> Append(probe.log,
                                Logged("update", s, 0, RequestsOf(rate_limiters, s),
                                       RequestsOf(rate_limiters, s), CheckPassed, updated[s]))]
    /\ UNCHANGED <<interceptor, loader, supervisor, coroutines>>

\* Time passes between calls.
EngineTick ==
    /\ \E d \in EngineTickSteps :
        /\ now + d <= MaxTime
        /\ now' = now + d
    /\ UNCHANGED <<rate_limiters, interceptor_records, others>>

NextEngineRun ==
    \/ EngineCheck
    \/ UpdateServerPolicy
    \/ EngineTick

InitEngineRun ==
    /\ probe = NewEngine
    /\ InterceptorInit
    /\ LoaderInit
    /\ SupervisorInit
    /\ CoroutinesInit

SpecEngineRun == InitEngineRun /\ [][NextEngineRun]_vars

\* The denials of the content-pattern check and of elevated scrutiny.
ContentViolations == {"security_pattern"} \cup HighSecurityViolations

\* The checks of the server of call k made before it and less than a minute
\* before it.
RecentChecksBefore(k) ==
    {j \in 1..(k - 1) :
        /\ probe.log[j].op = "check"
        /\ probe.log[j].server_name = probe.log[k].server_name
        /\ probe.log[j].time > probe.log[k].time - Window}

\* C35: a call denied by a content pattern or by elevated scrutiny has its
\* request recorded in the server's window; and when the calls of the last
\* minute for a server were all denied that way and are as many as its rate
\* limit, the next call inside the allowed hours is denied with rate_limit.
C35_DeniedCallsConsumeSlots ==
    \A k \in DOMAIN probe.log :
        LET e == probe.log[k]
            fresh == SelectSeq(e.before, LAMBDA req_time : req_time > e.time - Window)
        IN e.op = "check" =>
            /\ e.policy_violation \in ContentViolations => e.after = Append(fresh, e.time)
            /\ (/\ e.policy_violation # "time_restriction"
                /\ \A j \in RecentChecksBefore(k) :
                        probe.log[j].policy_violation \in ContentViolations
                /\ Cardinality(RecentChecksBefore(k))
                        >= governance_configs[e.server_name].rate_limit)
               => e.policy_violation = "rate_limit"

\* Two calls for db-srv (rate limit 2) were denied by elevated scrutiny and
\* the third, half a minute later, was denied with rate_limit; none was allowed.
C35_Witness ==
    /\ Len(probe.log) = 3
    /\ \A k \in 1..3 : probe.log[k].op = "check" /\ probe.log[k].server_name = "db-srv"
    /\ probe.log[1].policy_violation \in ContentViolations
    /\ probe.log[2].policy_violation \in ContentViolations
    /\ probe.log[3].policy_violation = "rate_limit"
    /\ probe.log[3].time = 30

\* C36: a call denied with rate_limit leaves in the window only the requests
\* of the last minute, adding none; and a call inside the allowed hours whose
\* window's oldest request is 60 s old or more is not denied with rate_limit.
C36_CapacityReturns ==
    \A k \in DOMAIN probe.log :
        LET e == probe.log[k]
        IN e.op = "check" =>
            /\ e.policy_violation = "rate_limit" =>
                e.after = SelectSeq(e.before, LAMBDA req_time : req_time > e.time - Window)
            /\ (/\ e.policy_violation # "time_restriction"
                /\ e.before # <<>>
                /\ e.before[1] <= e.time - Window)
               => e.policy_violation # "rate_limit"

\* echo-srv (rate limit 1): a call admitted at 0, one denied with rate_limit
\* at 30, one passing the rate check at 60.
C36_Witness ==
    /\ Len(probe.log) = 3
    /\ \A k \in 1..3 : probe.log[k].op = "check" /\ probe.log[k].server_name = "echo-srv"
    /\ probe.log[1].time = 0 /\ probe.log[1].allowed
    /\ probe.log[2].time = 30 /\ probe.log[2].policy_violation = "rate_limit"
    /\ probe.log[2].after = <<0>>
    /\ probe.log[3].time = 60 /\ probe.log[3].allowed

\* C39: a call allowed for a server whose policy was updated was evaluated
\* against the server's entry in security_policies.
C39_UpdatedPolicyTakesEffect ==
    \A k \in DOMAIN probe.log :
        LET e == probe.log[k]
        IN (e.op = "check" /\ e.allowed /\ e.stored # NoPolicy)
            => /\ e.policy_applied.max_requests_per_minute = e.stored.max_requests_per_minute
               /\ e.policy_applied.high_security_mode = e.stored.high_security_mode

\* ------------------------------------------------ UsageTracker: the metrics cache
\* cache_expiry, in seconds.
cache_expiry == 300

\* The seconds in a day: timedelta keeps days and seconds apart.
SecondsPerDay == 86400

\* timedelta.seconds of a difference of delta whole seconds: the seconds
\* field alone, without the days.
TimedeltaSeconds(delta) == delta % SecondsPerDay

\* Sample values of hours (24 is the default).
HoursSamples == {1, 24}

\* Time passes between two calls: under and over the expiry, and a day.
MetricsTickSteps == {200, SecondsPerDay}

\* A new tracker's metrics_cache, its clock and the calls made so far.
NewMetricsCache == [metrics_cache |-> <<>>, clock |-> 0, ticks |-> 0, calls |-> <<>>]

\* The cache test of get_metrics_summary.
CacheIsFresh(metrics_cache, cache_key, clock) ==
    /\ cache_key \in DOMAIN metrics_cache
    /\ TimedeltaSeconds(clock - metrics_cache[cache_key].timestamp) < cache_expiry

\* get_metrics_summary: the cached data while the cache test passes; else the
\* metrics of the store, cached with the current time; the error dict when
\* the store raises, leaving the cache alone.
get_metrics_summary(metrics_cache, hours, clock, ok) ==
    IF CacheIsFresh(metrics_cache, hours, clock)
    THEN [kind |-> "cached", data |-> metrics_cache[hours].data,
          metrics_cache |-> metrics_cache]
    ELSE IF ok
    THEN LET enhanced_metrics == [cached_at |-> clock, hours |-> hours]
         IN [kind |-> "computed", data |-> enhanced_metrics,
             metrics_cache |-> Update(metrics_cache,
                    [k \in {hours} |-> [data |-> enhanced_metrics, timestamp |-> clock]])]
    ELSE [kind |-> "error", data |-> [cached_at |-> clock, hours |-> hours],
          metrics_cache |-> metrics_cache]

\* A call of get_metrics_summary; the store answers or raises.
GetMetricsSummary ==
    /\ Len(probe.calls) < MaxMetricsCalls
    /\ \E hours \in HoursSamples, ok \in BOOLEAN :
        LET r == get_metrics_summary(probe.metrics_cache, hours, probe.clock, ok)
        IN probe' = [metrics_cache |-> r.metrics_cache,
                     clock |-> probe.clock,
                     ticks |-> probe.ticks,
                     calls |-> Append(probe.calls,
                        [hours |-> hours, time |-> probe.clock, kind |-> r.kind,
                         data |-> r.data,
                         cached_before |-> hours \in DOMAIN probe.metrics_cache,
                         cached_at |-> IF hours \in DOMAIN probe.metrics_cache
                                       THEN probe.metrics_cache[hours].timestamp
                                       ELSE probe.clock])]
    /\ UNCHANGED <<interceptor, loader, supervisor, coroutines>>

\* Time passes.
MetricsTick ==
    /\ \E d \in MetricsTickSteps :
        /\ probe.ticks < MaxMetricsTicks
        /\ probe' = [probe EXCEPT !.clock = @ + d, !.ticks = @ + 1]
    /\ UNCHANGED <<interceptor, loader, supervisor, coroutines>>

NextMetrics ==
    \/ GetMetricsSummary
    \/ MetricsTick

InitMetrics ==
    /\ probe = NewMetricsCache
    /\ InterceptorInit
    /\ LoaderInit
    /\ SupervisorInit
    /\ CoroutinesInit

SpecMetrics == InitMetrics /\ [][NextMetrics]_vars

\* C40: get_metrics_summary returns the cached value only when the entry was
\* cached less than cache_expiry seconds before the call; for every elapsed
\* time of cache_expiry seconds or more the entry is not served from the cache.
C40_CacheExpires ==
    \A k \in DOMAIN probe.calls :
        LET c == probe.calls[k]
        IN c.kind = "cached" => (c.cached_before /\ c.time - c.cached_at < cache_expiry)

\* --------------------------------------------- run_servers after setup_all_servers
\* The FastMCP front-ends the setup creates, by the name they are given.
UnifiedFrontEnd == "mcp-governance-bridge-unified"
IndividualFrontEnd(server_name) == "governance-" \o server_name

\* self.unified_server after setup_all_servers ("None" when never assigned).
unified_server(deployment) ==
    LET names == DOMAIN deployment.config.mcpServers
        deployment_mode == deployment.config.governance.deployment_mode
    IN IF \/ deployment_mode = "unified"
          \/ /\ deployment_mode = "hybrid"
             /\ \E n \in names : ServerMode(deployment, n, "unified") = "unified"
       THEN UnifiedFrontEnd ELSE "None"

\* The front-ends setup_all_servers constructs, in the order it constructs them.
front_ends_created(deployment) ==
    LET deployment_mode == deployment.config.governance.deployment_mode
        separate == SelectSeq(deployment.order,
                        LAMBDA n : ServerMode(deployment, n, "None") = "separate_port")
        individual == IF deployment_mode = "multi-port" THEN deployment.order
                      ELSE IF deployment_mode = "hybrid" THEN separate ELSE <<>>
    IN (IF unified_server(deployment) # "None" THEN <<UnifiedFrontEnd>> ELSE <<>>)
        \o [i \in DOMAIN individual |-> IndividualFrontEnd(individual[i])]

\* run_servers: the serving tasks it creates from self.unified_server and
\* self.servers: the unified server on the port of the entry 'unified', then
\* every entry whose key is not 'unified'.
run_servers(deployment, servers) ==
    LET keys == SelectSeq(deployment.order,
                    LAMBDA n : n \in DOMAIN servers /\ n # "unified")
    IN (IF unified_server(deployment) # "None" /\ "unified" \in DOMAIN servers
        THEN <<[server |-> unified_server(deployment), port |-> servers["unified"].port,
                name |-> "Unified Server"]>>
        ELSE <<>>)
        \o [i \in DOMAIN keys |->
                [server |-> IndividualFrontEnd(keys[i]), port |-> servers[keys[i]].port,
                 name |-> keys[i]]]

\* run_servers on the servers setup_all_servers left.
StartServerTasks ==
    /\ probe.done
    /\ probe.output.op = "setup_all_servers"
    /\ probe' = [probe EXCEPT
            !.output = [op |-> "run_servers",
                        servers |-> probe.output.servers,
                        reports |-> probe.output.reports,
                        conflicts |-> <<>>,
                        created |-> front_ends_created(probe.input),
                        server_tasks |-> run_servers(probe.input, probe.output.servers)]]
    /\ UNCHANGED <<interceptor, loader, supervisor, coroutines>>

NextRunServers ==
    \/ SetupAllServers
    \/ StartServerTasks

SpecRunServers == InitDeploy /\ [][NextRunServers]_vars

\* C38: run_servers starts exactly one serving task for every front-end that
\* setup_all_servers created, whatever the upstreams are called.
C38_OneTaskPerFrontEnd ==
    (probe.done /\ probe.output.op = "run_servers") =>
        LET created == probe.output.created
            server_tasks == probe.output.server_tasks
        IN /\ \A i \in DOMAIN created :
                Cardinality({k \in DOMAIN server_tasks :
                                server_tasks[k].server = created[i]}) = 1
           /\ \A k \in DOMAIN server_tasks :
                \E i \in DOMAIN created : created[i] = server_tasks[k].server

====
